---- MODULE Spec2Model ----
(***************************************************************************)
(* Model of the game-recording bot: the relational store behind            *)
(* GameManager (pods, pod players, games, results, eliminations, deletion  *)
(* requests), the in-memory draft Game, the commit path                    *)
(* (GameManager.add_game / Game.finalize), the dual-confirmation deletion  *)
(* path (GameManager.request_game_deletion / handle_delete_game), the      *)
(* derived statistics (GameManager.get_player_stats) and the two recording *)
(* conversations (/game and /customgame) with the per-user user_data bag   *)
(* they keep their session state in.                                       *)
(*                                                                         *)
(* Handlers are atomic steps: the Application is built without             *)
(* concurrent_updates (src/main.py:55), so one update is handled to        *)
(* completion before the next one is looked at.                            *)
(***************************************************************************)
EXTENDS Integers, Sequences, FiniteSets, TLC

(***************************************************************************)
(* Bounds of the model                                                     *)
(***************************************************************************)
\* at most this many rows in the games table
MaxGames == 1
\* at most this many /delete commands wait to be handled at one time
MaxPendingDeletes == 2
\* at most this many pod players are removed behind the bot's back
MaxRemovals == 1
\* at most this many updates of the Operator are handled in one behaviour
MaxEvents == 9

\* calls made on one draft by the draft specification
MaxDraftCalls == 4
\* at most this many /delete commands are sent in one behaviour
MaxDeleteCalls == 3

\* telegram ids of the users
Users == {1, 2, 3}
\* group chats; the pod of a group has the chat id as its pod_id
Chats == {10, 20}
\* a group chat for which no pod was created
PodlessGroups == {30}
\* the private chat of a user with the bot has the user's id as chat id
PrivateChats == {1}
\* every chat an update can come from
AllChats == Chats \cup PodlessGroups \cup PrivateChats

\* update.effective_chat.type
ChatType(chat) == IF chat \in PrivateChats THEN "private" ELSE "group"
\* the Operator is the user whose recording sessions are followed: user_data
\* below is the Operator's
Outcomes == {"win", "lose", "draw"}

(***************************************************************************)
(* Small helpers                                                           *)
(***************************************************************************)
Range(s) == {s[i] : i \in DOMAIN s}

Max(S) == IF S = {} THEN 0 ELSE CHOOSE x \in S : \A y \in S : y <= x

EmptyMap == [x \in {} |-> 0]

\* d[k] = v of a Python dict
Put(f, k, v) == [x \in (DOMAIN f) \cup {k} |-> IF x = k THEN v ELSE f[x]]

\* d.pop(k) for every k in K
Drop(f, K) == [x \in (DOMAIN f) \ K |-> f[x]]

\* list.index(x)
IndexOf(s, x) == CHOOSE i \in DOMAIN s : s[i] = x /\ \A j \in DOMAIN s : s[j] = x => i <= j

(***************************************************************************)
(* The store: one record of tables (src/telegram_bot/models/database.py)   *)
(***************************************************************************)
\* pods_players rows; (pod_id, telegram_id) is unique (uq_pod_player)
PodPlayerRow(id, pod, tid) == [pods_player_id |-> id, pod_id |-> pod, telegram_id |-> tid]

\* the directory the recording sessions start from: two players in pod 10
InitialDirectory == { PodPlayerRow(1, 10, 1), PodPlayerRow(2, 10, 2) }

EmptyStore ==
    [ pods    |-> Chats,
      players |-> InitialDirectory,
      games   |-> {},
      results |-> {},
      elims   |-> {},
      reqs    |-> {} ]

\* session.query(PodPlayer).filter_by(pod_id=, telegram_id=).first()
HasPlayer(d, pod, tid) == \E p \in d.players : p.pod_id = pod /\ p.telegram_id = tid

PlayerOf(d, pod, tid) == CHOOSE p \in d.players : p.pod_id = pod /\ p.telegram_id = tid

PlayerById(d, id) == CHOOSE p \in d.players : p.pods_player_id = id

\* get_pod_members
PodMembers(d, pod) == {p.telegram_id : p \in {q \in d.players : q.pod_id = pod}}

\* INTEGER PRIMARY KEY of SQLite without AUTOINCREMENT: largest rowid + 1
NextGameId(d) == Max({g.game_id : g \in d.games}) + 1

NextEliminationId(d) == Max({e.elimination_id : e \in d.elims}) + 1

(***************************************************************************)
(* Hashids(salt, min_length=6) of the hashids package (game.py:7, 261):    *)
(* strings are sequences of character codes (ord).                         *)
(***************************************************************************)
\* Hashids.ALPHABET: a-z, A-Z, 1-9, 0
ALPHABET ==
    [i \in 1..26 |-> 96 + i] \o [i \in 1..26 |-> 64 + i] \o [i \in 1..9 |-> 48 + i] \o <<48>>

\* 'cfhistuCFHISTU'
SEPARATORS == <<99, 102, 104, 105, 115, 116, 117, 67, 70, 72, 73, 83, 84, 85>>

MIN_LENGTH == 6

\* "SECRET_SALT", the default db_salt of GameManager (game.py:405)
DATABASE_SALT == <<83, 69, 67, 82, 69, 84, 95, 83, 65, 76, 84>>

Swap(s, i, j) == [s EXCEPT ![i] = s[j], ![j] = s[i]]

\* the loop of _reorder: i runs from len - 1 down to 1 (positions from 0)
RECURSIVE ReorderFrom(_, _, _, _, _)
ReorderFrom(string, salt, i, index, integer_sum) ==
    IF i < 1 THEN string
    ELSE LET integer == salt[index + 1]
             sum     == integer_sum + integer
             j       == (integer + index + sum) % i
         IN ReorderFrom(Swap(string, i + 1, j + 1), salt, i - 1,
                        (index + 1) % Len(salt), sum)

\* _reorder(string, salt)
reorder(string, salt) ==
    IF Len(salt) = 0 THEN string ELSE ReorderFrom(string, salt, Len(string) - 1, 0, 0)

\* a _hash that keeps only the lowest digit of the number
hash_lowest_digit(number, alphabet) == <<alphabet[(number % Len(alphabet)) + 1]>>

\* _hash(number, alphabet): the digits of number to the base len(alphabet)
RECURSIVE hash(_, _)
hash(number, alphabet) ==
    LET digit == <<alphabet[(number % Len(alphabet)) + 1]>>
        rest  == number \div Len(alphabet)
    IN IF rest = 0 THEN digit ELSE hash(rest, alphabet) \o digit

\* alphabet.index(character)
Position(alphabet, character) == (CHOOSE i \in DOMAIN alphabet : alphabet[i] = character) - 1

\* _unhash(hashed, alphabet)
RECURSIVE UnhashFrom(_, _, _)
UnhashFrom(hashed, alphabet, number) ==
    IF hashed = << >> THEN number
    ELSE UnhashFrom(Tail(hashed), alphabet,
                    number * Len(alphabet) + Position(alphabet, Head(hashed)))

unhash(hashed, alphabet) == UnhashFrom(hashed, alphabet, 0)

\* _index_from_ratio(dividend, divisor) for the ratios 3.5 and 12
CeilDiv(dividend, divisor) == (dividend + divisor - 1) \div divisor

\* Hashids.__init__: the alphabet without separators, both shuffled by the
\* salt, and the guards taken from the head of the alphabet
Hashids(salt) ==
    LET alphabet0 == SelectSeq(ALPHABET, LAMBDA c : c \notin Range(SEPARATORS))
        separators0 == reorder(SEPARATORS, salt)
        missing == CeilDiv(2 * Len(alphabet0), 7) - Len(separators0)
        separators == IF missing > 0 THEN separators0 \o SubSeq(alphabet0, 1, missing)
                      ELSE separators0
        alphabet1 == IF missing > 0 THEN SubSeq(alphabet0, missing + 1, Len(alphabet0))
                     ELSE alphabet0
        alphabet2 == reorder(alphabet1, salt)
        num_guards == CeilDiv(Len(alphabet2), 12)
    IN [ salt       |-> salt,
         alphabet   |-> SubSeq(alphabet2, num_guards + 1, Len(alphabet2)),
         separators |-> separators,
         guards     |-> SubSeq(alphabet2, 1, num_guards) ]

\* sum(x % (i + 100) for i, x in enumerate(values))
RECURSIVE ValuesHash(_, _)
ValuesHash(values, i) ==
    IF values = << >> THEN 0 ELSE (Head(values) % (i + 100)) + ValuesHash(Tail(values), i + 1)

\* the loop of _encode over the values; the separator behind the last
\* value is cut off
RECURSIVE EncodeValues(_, _, _, _, _, _)
EncodeValues(h, values, i, lottery, alphabet, encoded) ==
    IF values = << >>
    THEN [encoded |-> SubSeq(encoded, 1, Len(encoded) - 1), alphabet |-> alphabet]
    ELSE LET alphabet_salt == SubSeq(<<lottery>> \o h.salt \o alphabet, 1, Len(alphabet))
             shuffled == reorder(alphabet, alphabet_salt)
             last == hash(Head(values), shuffled)
             value == Head(values) % (last[1] + i)
             separator == h.separators[(value % Len(h.separators)) + 1]
         IN EncodeValues(h, Tail(values), i + 1, lottery, shuffled,
                         encoded \o last \o <<separator>>)

\* the while loop of _ensure_length
RECURSIVE PadToLength(_, _, _)
PadToLength(encoded, alphabet, split_at) ==
    IF Len(encoded) >= MIN_LENGTH THEN encoded
    ELSE LET shuffled == reorder(alphabet, alphabet)
             padded == SubSeq(shuffled, split_at + 1, Len(shuffled)) \o encoded
                       \o SubSeq(shuffled, 1, split_at)
             excess == Len(padded) - MIN_LENGTH
             from_index == excess \div 2
         IN PadToLength(IF excess > 0
                        THEN SubSeq(padded, from_index + 1, from_index + MIN_LENGTH)
                        ELSE padded,
                        shuffled, split_at)

\* _ensure_length(encoded, min_length, alphabet, guards, values_hash)
ensure_length(encoded, alphabet, guards, values_hash) ==
    LET front == <<guards[((values_hash + encoded[1]) % Len(guards)) + 1]>> \o encoded
        both  == IF Len(front) < MIN_LENGTH
                 THEN front \o <<guards[((values_hash + front[3]) % Len(guards)) + 1]>>
                 ELSE front
    IN PadToLength(both, alphabet, Len(alphabet) \div 2)

\* Hashids.encode(*values) for a non-empty tuple of non-negative integers
encode(h, values) ==
    LET values_hash == ValuesHash(values, 0)
        lottery == h.alphabet[(values_hash % Len(h.alphabet)) + 1]
        r == EncodeValues(h, values, 0, lottery, h.alphabet, <<lottery>>)
    IN IF Len(r.encoded) >= MIN_LENGTH THEN r.encoded
       ELSE ensure_length(r.encoded, r.alphabet, h.guards, values_hash)

\* _split(string, splitters): the parts of the string between the splitters
RECURSIVE SplitFrom(_, _, _, _)
SplitFrom(string, splitters, parts, part) ==
    IF string = << >> THEN Append(parts, part)
    ELSE IF Head(string) \in Range(splitters)
    THEN SplitFrom(Tail(string), splitters, Append(parts, part), << >>)
    ELSE SplitFrom(Tail(string), splitters, parts, Append(part, Head(string)))

split(string, splitters) == SplitFrom(string, splitters, << >>, << >>)

\* the loop of _decode over the parts between the separators
RECURSIVE DecodeParts(_, _, _, _, _)
DecodeParts(h, parts, lottery, alphabet, numbers) ==
    IF parts = << >> THEN numbers
    ELSE LET alphabet_salt == SubSeq(<<lottery>> \o h.salt \o alphabet, 1, Len(alphabet))
             shuffled == reorder(alphabet, alphabet_salt)
         IN DecodeParts(h, Tail(parts), lottery, shuffled,
                        Append(numbers, unhash(Head(parts), shuffled)))

\* Hashids.decode(hashid) for a string over the alphabet, the separators and
\* the guards: the tuple of numbers, or the empty tuple when the numbers do
\* not encode to the hashid
decode(h, hashid) ==
    LET parts == split(hashid, h.guards)
        body  == IF Len(parts) \in {2, 3} THEN parts[2] ELSE parts[1]
    IN IF body = << >> THEN << >>
       ELSE LET numbers == DecodeParts(h, split(Tail(body), h.separators), Head(body),
                                       h.alphabet, << >>)
            IN IF hashid = encode(h, numbers) THEN numbers ELSE << >>

\* encode under DATABASE_SALT of the ids 0 .. 7, the ids the store hands out
\* in the recording and the deletion specification, worked out once
ReferenceTable ==
    <<
       <<76, 90, 82, 78, 90, 48>>,  \* 0: 'LZRNZ0'
       <<106, 56, 68, 71, 55, 112>>,  \* 1: 'j8DG7p'
       <<81, 52, 65, 103, 56, 113>>,  \* 2: 'Q4Ag8q'
       <<120, 56, 74, 68, 52, 53>>,  \* 3: 'x8JD45'
       <<110, 55, 48, 111, 52, 74>>,  \* 4: 'n70o4J'
       <<110, 90, 97, 78, 52, 103>>,  \* 5: 'nZaN4g'
       <<122, 56, 103, 65, 52, 82>>,  \* 6: 'z8gA4R'
       <<88, 56, 110, 50, 56, 108>>   \* 7: 'X8n28l'
    >>

\* hashids.encode(self.game_id) under the salt of the deployment
Encode(id) == ReferenceTable[id + 1]

(***************************************************************************)
(* The unit of work of the SQLAlchemy session: rows added and flushed but  *)
(* not yet committed.  Queries made inside the transaction see them.       *)
(***************************************************************************)
NoTxn == [games |-> {}, results |-> {}, elims |-> {}, reqs |-> {}, deleted |-> {}]

\* what the session sees / what session.commit() makes durable
Apply(d, txn) ==
    [ d EXCEPT !.games   = (@ \ {g \in @ : g.game_id \in txn.deleted}) \cup txn.games,
               !.results = @ \cup txn.results,
               !.elims   = @ \cup txn.elims,
               !.reqs    = @ \cup txn.reqs ]

\* a rollback that keeps what was flushed
RollbackKeepsFlushed(d, txn) == Apply(d, txn)

\* session.rollback(): the pending rows are gone, the store is as it was
Rollback(d, txn) == d

(***************************************************************************)
(* The draft: the dataclass Game (src/telegram_bot/models/game.py:149)     *)
(* players is the insertion order of the players dict; has_db_game says    *)
(* that _db_game is set; game_id = 0 stands for None.                      *)
(***************************************************************************)
NewGame(pod) ==
    [ pod_id       |-> pod,
      players      |-> << >>,
      outcomes     |-> EmptyMap,
      eliminations |-> EmptyMap,
      finalized    |-> FALSE,
      has_db_game  |-> FALSE,
      game_id      |-> 0 ]

\* Game.add_player: self.players[telegram_id] = name
add_player(g, tid) ==
    IF tid \in Range(g.players) THEN g
    ELSE [g EXCEPT !.players = Append(@, tid)]

\* record_outcome that skips the membership check of its first lines
record_outcome_unchecked(g, tid, outcome) ==
    [ok |-> TRUE, game |-> [g EXCEPT !.outcomes = Put(@, tid, outcome)]]

\* Game.record_outcome with the default (empty) eliminations argument;
\* ok = FALSE is the ValueError
record_outcome(g, tid, outcome) ==
    IF tid \notin Range(g.players)
    THEN [ok |-> FALSE, game |-> g]
    ELSE [ok |-> TRUE, game |-> [g EXCEPT !.outcomes = Put(@, tid, outcome)]]

\* the loop of Game.record_outcome over the keys of its eliminations
\* argument, in the order of the dict: each key is checked when its turn
\* comes, after the entries before it were written
RECURSIVE record_eliminations(_, _, _)
record_eliminations(g, tid, eliminated) ==
    IF eliminated = << >> THEN [ok |-> TRUE, game |-> g]
    ELSE IF Head(eliminated) \notin Range(g.players)
    THEN [ok |-> FALSE, game |-> g]
    ELSE record_eliminations([g EXCEPT !.eliminations = Put(@, Head(eliminated), tid)],
                             tid, Tail(eliminated))

\* Game.record_outcome with an eliminations argument (eliminated: its keys)
record_outcome_with(g, tid, outcome, eliminated) ==
    IF tid \notin Range(g.players)
    THEN [ok |-> FALSE, game |-> g]
    ELSE record_eliminations([g EXCEPT !.outcomes = Put(@, tid, outcome)], tid, eliminated)

(***************************************************************************)
(* Game.finalize(session): returns the rows it flushed, the draft as it    *)
(* left it and whether it raised.  fail names the storage step that the    *)
(* environment lets fail ("none" for no failure).                          *)
(***************************************************************************)
FailPoints == {"none", "game_insert", "results", "elims", "flush", "commit"}

ResultRows(d, g, gid) ==
    { [ game_id   |-> gid,
        player_id |-> PlayerOf(d, g.pod_id, t).pods_player_id,
        outcome   |-> g.outcomes[t] ] : t \in DOMAIN g.outcomes }

\* rows of bulk_save_objects(eliminations); ids are given in the order of
\* the eliminated telegram ids
EliminationRows(d, g, gid) ==
    LET base == NextEliminationId(d) - 1
        rank(t) == Cardinality({x \in DOMAIN g.eliminations : x <= t})
    IN { [ elimination_id |-> base + rank(t),
           game_id        |-> gid,
           eliminator_id  |-> PlayerOf(d, g.pod_id, g.eliminations[t]).pods_player_id,
           eliminated_id  |-> PlayerOf(d, g.pod_id, t).pods_player_id ]
         : t \in DOMAIN g.eliminations }

\* the primary key (game_id, player_id) of game_results, and NOT NULL game_id
ResultInsertRejected(d, rows, gid) ==
    \/ gid = 0
    \/ \E r \in rows : \E q \in d.results :
          q.game_id = r.game_id /\ q.player_id = r.player_id

\* a failure of finalize that also loses the outcomes of the draft
RaisedDropsOutcomes(txn, g, err, who) ==
    [txn |-> txn, game |-> [g EXCEPT !.outcomes = EmptyMap], ok |-> FALSE, err |-> err, who |-> who]

\* who: the telegram id that "Player ... not found in pod ..." names
Raised(txn, g, err, who) == [txn |-> txn, game |-> g, ok |-> FALSE, err |-> err, who |-> who]

Finalize(d, g, fail) ==
    IF g.finalized
    THEN [txn |-> NoTxn, game |-> g, ok |-> TRUE, err |-> "none", who |-> 0]
    ELSE IF DOMAIN g.outcomes = {}
    THEN Raised(NoTxn, g, "no_outcomes", 0)
    ELSE
      LET creating == ~g.has_db_game
          g1 == [g EXCEPT !.has_db_game = TRUE]
      IN IF creating /\ fail = "game_insert"
         THEN Raised(NoTxn, g1, "storage", 0)
         ELSE
           LET gid == IF creating THEN NextGameId(d) ELSE g.game_id
               g2  == [g1 EXCEPT !.game_id = gid]
               \* the row of _db_game reaches the store only when it was
               \* added to this session; its deletion_reference is set
               \* before the last flush
               gameRows == IF creating
                           THEN {[ game_id |-> gid, pod_id |-> g.pod_id,
                                   deletion_reference |-> Encode(gid) ]}
                           ELSE {}
               unknownResult == {t \in DOMAIN g.outcomes : ~HasPlayer(d, g.pod_id, t)}
               unknownElim   == \E t \in DOMAIN g.eliminations :
                                   \/ ~HasPlayer(d, g.pod_id, t)
                                   \/ ~HasPlayer(d, g.pod_id, g.eliminations[t])
               txn1 == [NoTxn EXCEPT !.games = gameRows]
           IN IF unknownResult # {}
              THEN Raised(txn1, g2, "player_not_found", CHOOSE t \in unknownResult : TRUE)
              ELSE
                LET rows == ResultRows(d, g, gid) IN
                IF fail = "results" \/ ResultInsertRejected(d, rows, gid)
                THEN Raised(txn1, g2, "storage", 0)
                ELSE
                  LET txn2 == [txn1 EXCEPT !.results = rows] IN
                  IF unknownElim THEN Raised(txn2, g2, "players_not_found", 0)
                  ELSE
                    LET erows == EliminationRows(d, g, gid) IN
                    IF fail = "elims" /\ erows # {}
                    THEN Raised(txn2, g2, "storage", 0)
                    ELSE
                      LET txn3 == [txn2 EXCEPT !.elims = erows] IN
                      IF fail = "flush"
                      THEN Raised(txn3, g2, "storage", 0)
                      ELSE [ txn |-> txn3, game |-> [g2 EXCEPT !.finalized = TRUE],
                             ok |-> TRUE, err |-> "none", who |-> 0 ]

(***************************************************************************)
(* GameManager.add_game(game): ok = FALSE is the RuntimeError; who is the  *)
(* telegram id named by "Player ... not found in pod ...".                 *)
(***************************************************************************)
AddGameResult(d, g, ok, err, who) == [db |-> d, game |-> g, ok |-> ok, err |-> err, who |-> who]

\* a validation that finds every player
NoMissingPlayers(d, g) == << >>

\* the loop over game.players at the head of add_game: the players without
\* a PodPlayer in the draft's pod, in the order of the loop
MissingPlayers(d, g) == SelectSeq(g.players, LAMBDA t : ~HasPlayer(d, g.pod_id, t))

AddGame(d, g, fail) ==
    LET missing == MissingPlayers(d, g)
        strayElimination ==
            \E e \in DOMAIN g.eliminations :
               e \notin Range(g.players) \/ g.eliminations[e] \notin Range(g.players)
    IN IF missing # << >>
       THEN AddGameResult(Rollback(d, NoTxn), g, FALSE, "player_not_found", Head(missing))
       ELSE IF strayElimination
       THEN AddGameResult(Rollback(d, NoTxn), g, FALSE, "elimination_not_in_game", 0)
       ELSE
         LET f == Finalize(d, g, fail) IN
         IF ~f.ok
         THEN AddGameResult(Rollback(d, f.txn), f.game, FALSE, f.err, f.who)
         ELSE IF fail = "commit"
         THEN AddGameResult(Rollback(d, f.txn), f.game, FALSE, "storage", 0)
         ELSE AddGameResult(Apply(d, f.txn), f.game, TRUE, "none", 0)

(***************************************************************************)
(* Reading a game back: Game.from_db_game / get_game_by_reference          *)
(***************************************************************************)
from_db_game(d, row) ==
    LET rs == {r \in d.results : r.game_id = row.game_id}
        es == {e \in d.elims : e.game_id = row.game_id}
        tidOf(id) == PlayerById(d, id).telegram_id
    IN [ game_id      |-> row.game_id,
         pod_id       |-> row.pod_id,
         players      |-> {tidOf(r.player_id) : r \in rs},
         outcomes     |-> [t \in {tidOf(r.player_id) : r \in rs} |->
                             (CHOOSE r \in rs : tidOf(r.player_id) = t).outcome],
         \* a later row of the same eliminated player overwrites an earlier one
         eliminations |-> [t \in {tidOf(e.eliminated_id) : e \in es} |->
                             LET mine == {e \in es : tidOf(e.eliminated_id) = t}
                                 last == CHOOSE e \in mine :
                                           \A o \in mine : o.elimination_id <= e.elimination_id
                             IN tidOf(last.eliminator_id)] ]

\* the rows with that deletion_reference (the column is unique)
GamesByReference(d, ref) == {g \in d.games : g.deletion_reference = ref}

(***************************************************************************)
(* session.delete(db_game) followed by commit.  The relationships of Game  *)
(* (database.py:61-66) carry no delete cascade and no passive_deletes, so  *)
(* the flush detaches every child row by blanking its game_id:             *)
(* game_results.game_id is part of the primary key (database.py:72) and    *)
(* eliminations.game_id and game_deletion_requests.game_id are NOT NULL    *)
(* (database.py:89, 107-111), so the flush raises as soon as one child row *)
(* exists.                                                                 *)
(***************************************************************************)
OrmDelete(view, gid) ==
    LET children == {r \in view.results : r.game_id = gid}
                    \cup {e \in view.elims : e.game_id = gid}
                    \cup {q \in view.reqs : q.game_id = gid}
    IN IF children # {}
       THEN [ok |-> FALSE, db |-> view]
       ELSE [ok |-> TRUE, db |-> [view EXCEPT !.games = {g \in @ : g.game_id # gid}]]

(***************************************************************************)
(* GameManager.request_game_deletion(deletion_ref, requester_id)           *)
(***************************************************************************)
RequestGameDeletion(d, ref, requester, fail) ==
    IF GamesByReference(d, ref) = {}
    THEN [db |-> d, status |-> "not_found"]
    ELSE
      LET game == CHOOSE g \in GamesByReference(d, ref) : TRUE IN
      IF ~HasPlayer(d, game.pod_id, requester)
      THEN [db |-> d, status |-> "not_in_game"]
      ELSE
        LET pp == PlayerOf(d, game.pod_id, requester) IN
        IF \E q \in d.reqs : q.game_id = game.game_id /\ q.requester_id = pp.pods_player_id
        THEN [db |-> d, status |-> "already_requested"]
        ELSE
          LET txn  == [NoTxn EXCEPT !.reqs = {[ game_id |-> game.game_id,
                                                requester_id |-> pp.pods_player_id ]}]
              view == Apply(d, txn)
              requesters == Cardinality({q.requester_id :
                                           q \in {x \in view.reqs : x.game_id = game.game_id}})
          IN IF requesters >= 2
             THEN LET del == OrmDelete(view, game.game_id) IN
                  IF del.ok /\ fail # "commit"
                  THEN [db |-> del.db, status |-> "deleted"]
                  ELSE [db |-> Rollback(d, txn), status |-> "error"]
             ELSE IF fail = "commit"
                  THEN [db |-> Rollback(d, txn), status |-> "error"]
                  ELSE [db |-> view, status |-> "pending"]

(***************************************************************************)
(* GameManager.get_player_stats(telegram_id, pod_id) without since_date    *)
(***************************************************************************)
NoStats == [games_played |-> 0, wins |-> 0, losses |-> 0, draws |-> 0, eliminations |-> 0]

\* PlayerStats.update_from_game
update_from_game(s, outcome, eliminations) ==
    LET s1 == [s EXCEPT !.games_played = @ + 1, !.eliminations = @ + eliminations]
    IN IF outcome = "win" THEN [s1 EXCEPT !.wins = @ + 1]
       ELSE IF outcome = "lose" THEN [s1 EXCEPT !.losses = @ + 1]
       ELSE [s1 EXCEPT !.draws = @ + 1]

RECURSIVE StatsOver(_, _, _, _)
StatsOver(d, player, rows, s) ==
    IF rows = {} THEN s
    ELSE LET result == CHOOSE r \in rows : TRUE
             elim_count == Cardinality({e \in d.elims :
                               /\ e.game_id = result.game_id
                               /\ e.eliminator_id = player.pods_player_id})
         IN StatsOver(d, player, rows \ {result},
                      update_from_game(s, result.outcome, elim_count))

\* found = FALSE is the None returned for an unknown player
get_player_stats(d, tid, pod) ==
    IF ~HasPlayer(d, pod, tid)
    THEN [found |-> FALSE, stats |-> NoStats]
    ELSE LET player == PlayerOf(d, pod, tid)
             rows == {r \in d.results : r.player_id = player.pods_player_id}
         IN [found |-> TRUE, stats |-> StatsOver(d, player, rows, NoStats)]

\* get_pod_player(telegram_id, pod_id) is get_player_stats: None for a
\* telegram id without a PodPlayer in the pod
get_pod_player(d, tid, pod) == get_player_stats(d, tid, pod)

(***************************************************************************)
(* context.user_data of one user: a dict.  keys is the set of keys that    *)
(* are present; the field of an absent key holds a filler.                 *)
(***************************************************************************)
UserDataKeys == {"current_game", "added_players", "eliminated_players", "current_player_id"}

NoUserData ==
    [ keys               |-> {},
      current_game       |-> NewGame(0),
      added_players      |-> << >>,
      eliminated_players |-> << >>,
      current_player_id  |-> 0 ]

\* _reset_user_data of both conversations: del of each of the four keys
reset_user_data(ud) == NoUserData

Has(ud, key) == key \in ud.keys

(***************************************************************************)
(* Inline keyboard buttons (callback_data) and how the handlers read them  *)
(***************************************************************************)
Btn(kind, id, outcome) == [kind |-> kind, id |-> id, outcome |-> outcome]

DoneAddingPlayers == Btn("done_adding_players", 0, "")
ResetPlayers      == Btn("reset_players", 0, "")
DoneEliminations  == Btn("done_eliminations", 0, "")
ResetEliminations == Btn("reset_eliminations", 0, "")

\* int(query.data.split(":")[1]) succeeds for "kind:<id>" and "outcome:<id>:<o>"
HasIdAtOne(b) == b.kind \in {"add_player", "eliminate", "winner", "outcome"}

\* int(query.data.split(":")[-1]) succeeds for "kind:<id>" only
HasIdAtEnd(b) == b.kind \in {"add_player", "eliminate", "winner"}

(***************************************************************************)
(* What a handler hands back to the ConversationHandler: the user_data it  *)
(* leaves, the state it returns ("SAME" when it returns None or raises),   *)
(* and the keyboard of the prompt it sent, if it sent one.                 *)
(***************************************************************************)
Handled(ud, next, sent, kbd) == [ud |-> ud, next |-> next, sent |-> sent, kbd |-> kbd]

\* the handler raised, or its UnitHandler swallowed an error
Raise(ud) == Handled(ud, "SAME", FALSE, {})

\* UnitHandler.__call__: the prompt is sent and return_state returned, or
\* the reply strategy raised and None is returned
Reply(ud, prompt, return_state) ==
    IF prompt.ok THEN Handled(ud, return_state, TRUE, prompt.kbd) ELSE Raise(ud)

Prompt(ok, kbd) == [ok |-> ok, kbd |-> kbd]

\* PlayerSelectionReply.execute
PlayerSelectionReply(d, ud, chat) ==
    LET added == IF Has(ud, "added_players") THEN ud.added_players ELSE << >>
        ok == /\ chat \in d.pods
              /\ \A pid \in Range(added) : HasPlayer(d, chat, pid)
        players == {Btn("add_player", m, "") : m \in PodMembers(d, chat) \ Range(added)}
        actions == IF added # << >> THEN {ResetPlayers, DoneAddingPlayers} ELSE {}
    IN Prompt(ok, players \cup actions)

\* WinnerSelectionReply.execute
WinnerSelectionReply(d, ud, chat) ==
    LET ok == /\ Has(ud, "current_game")
              /\ Has(ud, "added_players")
              /\ \A pid \in Range(ud.added_players) : HasPlayer(d, chat, pid)
    IN Prompt(ok, {Btn("winner", pid, "") : pid \in Range(ud.added_players)})

\* OutcomeSelectionReply.execute
OutcomeSelectionReply(d, ud, chat) ==
    LET ok == /\ Has(ud, "current_game")
              /\ Has(ud, "current_player_id")
              /\ ud.current_player_id \in Range(ud.current_game.players)
    IN Prompt(ok, {Btn("outcome", ud.current_player_id, o) : o \in Outcomes})

Winners(g) == {t \in DOMAIN g.outcomes : g.outcomes[t] = "win"}

\* EliminationSelectionReply.execute
EliminationSelectionReply(d, ud, chat, allow_self_elimination, allow_winner_elimination) ==
    LET game == ud.current_game
        cur  == ud.current_player_id
        eliminated == IF Has(ud, "eliminated_players") THEN ud.eliminated_players ELSE << >>
        available1 == SelectSeq(ud.added_players, LAMBDA p : p \notin Range(eliminated))
        available  == IF allow_winner_elimination THEN available1
                      ELSE SelectSeq(available1, LAMBDA p : p \notin Winners(game))
        eliminated_by_current == {e \in DOMAIN game.eliminations : game.eliminations[e] = cur}
        offered == {p \in Range(available) : allow_self_elimination \/ p # cur}
        ok == /\ Has(ud, "current_game")
              /\ Has(ud, "current_player_id")
              /\ Has(ud, "added_players")
              /\ eliminated_by_current \subseteq Range(game.players)
              /\ \A p \in offered : HasPlayer(d, chat, p)
              /\ cur \in Range(game.players)
        actions == (IF eliminated_by_current # {} THEN {ResetEliminations} ELSE {})
                   \cup {DoneEliminations}
    IN Prompt(ok, {Btn("eliminate", p, "") : p \in offered} \cup actions)

\* GameSummaryReply.execute: str(game) looks every eliminated and
\* eliminating id up in game.players
GameSummaryReply(d, ud, chat) ==
    LET game == ud.current_game
        ok == /\ Has(ud, "current_game")
              /\ \A e \in DOMAIN game.eliminations :
                    e \in Range(game.players) /\ game.eliminations[e] \in Range(game.players)
    IN Prompt(ok, {})

(***************************************************************************)
(* Writes to user_data                                                     *)
(***************************************************************************)
SetGame(ud, g)    == [ud EXCEPT !.keys = @ \cup {"current_game"}, !.current_game = g]
SetAdded(ud, s)   == [ud EXCEPT !.keys = @ \cup {"added_players"}, !.added_players = s]
SetEliminated(ud, s) ==
    [ud EXCEPT !.keys = @ \cup {"eliminated_players"}, !.eliminated_players = s]
SetCurrent(ud, p) == [ud EXCEPT !.keys = @ \cup {"current_player_id"}, !.current_player_id = p]

\* a start that goes on with the draft and the lists it finds
BeginDraftOverStale(d, ud, chat) ==
    LET ud1 == IF Has(ud, "current_game") THEN ud
               ELSE SetEliminated(SetAdded(SetGame(ud, NewGame(chat)), << >>), << >>)
    IN Reply(ud1, PlayerSelectionReply(d, ud1, chat), "ADD_PLAYERS")

\* the lines both start_game handlers end with: a fresh draft and fresh lists
BeginDraft(d, ud, chat) ==
    LET ud1 == SetEliminated(SetAdded(SetGame(ud, NewGame(chat)), << >>), << >>)
    IN Reply(ud1, PlayerSelectionReply(d, ud1, chat), "ADD_PLAYERS")

(***************************************************************************)
(* /game: src/telegram_bot/conversations/add_game.py                       *)
(***************************************************************************)
\* the two checks both start_game handlers begin with
ValidContext(d, chat) == ChatType(chat) \in {"group", "supergroup"} /\ chat \in d.pods

\* a start that skips the two checks
start_game_unchecked(d, ud, chat) == BeginDraft(d, ud, chat)

game_start_game(d, ud, chat) ==
    IF ~ValidContext(d, chat) THEN Handled(ud, "END", FALSE, {})
    ELSE BeginDraft(d, ud, chat)

game_handle_player_selection(d, ud, chat, b) ==
    IF b = DoneAddingPlayers
    THEN IF ~Has(ud, "added_players") \/ ud.added_players = << >>
         THEN Raise(ud)
         ELSE LET ud1 == SetCurrent(ud, ud.added_players[1])
              IN Reply(ud1, WinnerSelectionReply(d, ud1, chat), "SELECT_WINNER")
    ELSE IF ~HasIdAtOne(b) \/ ~Has(ud, "added_players")
    THEN Raise(ud)
    ELSE
      LET ud1 == SetAdded(ud, Append(ud.added_players, b.id)) IN
      IF ~Has(ud1, "current_game") THEN Raise(ud1)
      ELSE IF ~get_pod_player(d, b.id, ud1.current_game.pod_id).found THEN Raise(ud1)
      ELSE LET ud2 == SetGame(ud1, add_player(ud1.current_game, b.id))
           IN Reply(ud2, PlayerSelectionReply(d, ud2, chat), "ADD_PLAYERS")

\* the loop of handle_winner_selection: it stops at the first ValueError
RECURSIVE RecordWinnerOutcomes(_, _, _)
RecordWinnerOutcomes(g, players, winner_id) ==
    IF players = << >> THEN [ok |-> TRUE, game |-> g]
    ELSE LET r == record_outcome(g, Head(players),
                                 IF Head(players) = winner_id THEN "win" ELSE "lose")
         IN IF ~r.ok THEN r
            ELSE RecordWinnerOutcomes(r.game, Tail(players), winner_id)

\* an elimination prompt with the policy of /customgame: every player
\* that is not eliminated yet is offered, the current one and the winners too
EliminationPromptOfCustomGame(d, ud, chat) ==
    Reply(ud, EliminationSelectionReply(d, ud, chat, TRUE, TRUE), "RECORD_ELIMINATIONS")

\* EliminationSelectionHandler of /game: EliminationSelectionReply with its
\* defaults allow_self_elimination=False, allow_winner_elimination=False
game_EliminationSelectionHandler(d, ud, chat) ==
    Reply(ud, EliminationSelectionReply(d, ud, chat, FALSE, FALSE), "RECORD_ELIMINATIONS")

game_handle_winner_selection(d, ud, chat, b) ==
    IF ~HasIdAtEnd(b) \/ ~Has(ud, "current_game") \/ ~Has(ud, "added_players")
    THEN Raise(ud)
    ELSE
      LET r == RecordWinnerOutcomes(ud.current_game, ud.added_players, b.id) IN
      IF ~r.ok THEN Raise(SetGame(ud, r.game))
      ELSE LET ud1 == SetCurrent(SetGame(ud, r.game), b.id)
           IN game_EliminationSelectionHandler(d, ud1, chat)

\* the summary replaces the deleted picker message; when the summary cannot
\* be rendered the picker is gone all the same
ShowSummary(d, ud, chat) ==
    LET p == GameSummaryReply(d, ud, chat)
    IN IF p.ok THEN Handled(ud, "CONFIRM_GAME", TRUE, {}) ELSE Handled(ud, "SAME", TRUE, {})

game_handle_elimination_selection(d, ud, chat, b) ==
    IF ~Has(ud, "current_game") THEN Raise(ud)
    ELSE
      LET game == ud.current_game
          eliminated_players == IF Has(ud, "eliminated_players")
                                THEN ud.eliminated_players ELSE << >>
      IN
      IF b = DoneEliminations
      THEN IF Len(eliminated_players) + Cardinality(Winners(game)) = Len(game.players)
           THEN ShowSummary(d, ud, chat)
           ELSE IF \/ ~Has(ud, "added_players") \/ ~Has(ud, "current_player_id")
                   \/ ud.current_player_id \notin Range(ud.added_players)
           THEN Raise(ud)
           ELSE LET current_idx == IndexOf(ud.added_players, ud.current_player_id) IN
                IF current_idx < Len(ud.added_players)
                THEN LET ud1 == SetCurrent(ud, ud.added_players[current_idx + 1])
                     IN game_EliminationSelectionHandler(d, ud1, chat)
                ELSE ShowSummary(d, ud, chat)
      ELSE IF ~HasIdAtOne(b) \/ ~Has(ud, "current_player_id")
      THEN Raise(ud)
      ELSE
        LET ud1 == SetGame(ud, [game EXCEPT !.eliminations =
                                   Put(@, b.id, ud.current_player_id)])
        IN IF ~Has(ud1, "eliminated_players") THEN Raise(ud1)
           ELSE LET ud2 == SetEliminated(ud1, Append(ud1.eliminated_players, b.id))
                IN game_EliminationSelectionHandler(d, ud2, chat)

(***************************************************************************)
(* /customgame: src/telegram_bot/conversations/add_custom_game.py          *)
(***************************************************************************)
custom_start_game(d, ud, chat) ==
    IF ~ValidContext(d, chat) THEN Handled(ud, "END", FALSE, {})
    ELSE BeginDraft(d, IF Has(ud, "current_game") THEN reset_user_data(ud) ELSE ud, chat)

\* the loop that copies added_players into the draft: it stops at the
\* first player that get_pod_player does not find
RECURSIVE CopyPlayers(_, _, _)
CopyPlayers(d, g, players) ==
    IF players = << >> THEN [ok |-> TRUE, game |-> g]
    ELSE IF ~get_pod_player(d, Head(players), g.pod_id).found
    THEN [ok |-> FALSE, game |-> g]
    ELSE CopyPlayers(d, add_player(g, Head(players)), Tail(players))

custom_handle_player_selection(d, ud, chat, b) ==
    IF b = ResetPlayers
    THEN LET ud1 == SetAdded(ud, << >>)
         IN Reply(ud1, PlayerSelectionReply(d, ud1, chat), "ADD_PLAYERS")
    ELSE IF b = DoneAddingPlayers
    THEN IF ~Has(ud, "added_players") THEN Raise(ud)
         ELSE IF Len(ud.added_players) < 2
         THEN Reply(ud, PlayerSelectionReply(d, ud, chat), "ADD_PLAYERS")
         ELSE IF ~Has(ud, "current_game") THEN Raise(ud)
         ELSE LET r == CopyPlayers(d, ud.current_game, ud.added_players) IN
              IF ~r.ok THEN Raise(SetGame(ud, r.game))
              ELSE LET ud1 == SetCurrent(SetGame(ud, r.game), ud.added_players[1])
                   IN Reply(ud1, OutcomeSelectionReply(d, ud1, chat), "RECORD_OUTCOMES")
    ELSE IF ~HasIdAtOne(b) \/ ~Has(ud, "added_players")
    THEN Raise(ud)
    ELSE LET ud1 == SetAdded(ud, Append(ud.added_players, b.id))
         IN Reply(ud1, PlayerSelectionReply(d, ud1, chat), "ADD_PLAYERS")

custom_handle_outcome_selection(d, ud, chat, b) ==
    IF b.kind # "outcome" \/ ~Has(ud, "current_game") \/ ~Has(ud, "current_player_id")
    THEN Raise(ud)
    ELSE LET r == record_outcome(ud.current_game, ud.current_player_id, b.outcome) IN
         IF ~r.ok THEN Raise(ud)
         ELSE LET ud1 == SetGame(ud, r.game)
              IN Reply(ud1, EliminationSelectionReply(d, ud1, chat, TRUE, TRUE),
                       "RECORD_ELIMINATIONS")

\* a reset that finds no elimination of the current player
EliminatedByNobody(game, eliminator) == {}

\* current_eliminations of the reset: the players whose eliminator is the
\* current player
EliminatedBy(game, eliminator) ==
    {p \in DOMAIN game.eliminations : game.eliminations[p] = eliminator}

custom_handle_elimination_selection(d, ud, chat, b) ==
    IF ~Has(ud, "current_game") THEN Raise(ud)
    ELSE
      LET game == ud.current_game IN
      IF b = ResetEliminations
      THEN IF ~Has(ud, "current_player_id") THEN Raise(ud)
           ELSE
             LET current_eliminations == EliminatedBy(game, ud.current_player_id)
                 ud1 == SetGame(ud, [game EXCEPT !.eliminations =
                                        Drop(@, current_eliminations)])
             IN IF ~Has(ud1, "eliminated_players") THEN Raise(ud1)
                ELSE LET ud2 == SetEliminated(ud1,
                                    SelectSeq(ud1.eliminated_players,
                                              LAMBDA p : p \notin current_eliminations))
                     IN Reply(ud2, EliminationSelectionReply(d, ud2, chat, TRUE, TRUE),
                              "RECORD_ELIMINATIONS")
      ELSE IF b = DoneEliminations
      THEN IF \/ ~Has(ud, "added_players") \/ ~Has(ud, "current_player_id")
              \/ ud.current_player_id \notin Range(ud.added_players)
           THEN Raise(ud)
           ELSE LET current_idx == IndexOf(ud.added_players, ud.current_player_id) IN
                IF current_idx < Len(ud.added_players)
                THEN LET ud1 == SetCurrent(ud, ud.added_players[current_idx + 1])
                     IN Reply(ud1, OutcomeSelectionReply(d, ud1, chat), "RECORD_OUTCOMES")
                ELSE ShowSummary(d, ud, chat)
      ELSE IF ~HasIdAtOne(b) \/ ~Has(ud, "current_player_id")
      THEN Raise(ud)
      ELSE
        LET ud1 == SetGame(ud, [game EXCEPT !.eliminations =
                                   Put(@, b.id, ud.current_player_id)])
        IN IF ~Has(ud1, "eliminated_players") THEN Raise(ud1)
           ELSE LET ud2 == SetEliminated(ud1, Append(ud1.eliminated_players, b.id))
                IN Reply(ud2, EliminationSelectionReply(d, ud2, chat, TRUE, TRUE),
                         "RECORD_ELIMINATIONS")

(***************************************************************************)
(* State                                                                   *)
(***************************************************************************)
VARIABLES
    db,      \* the committed content of the database
    ud,      \* context.user_data of the Operator (one dict for all chats)
    conv,    \* state of each ConversationHandler per chat ("END": none)
    kbd,     \* buttons of the picker message each session has opened
    owner,   \* the session whose start_game filled user_data (history)
    inbox,   \* /delete commands received and not yet handled
    raced,   \* answers to the /delete commands that last waited together (history)
    last,    \* the operation handled last, with the store before it (history)
    events   \* number of updates of the Operator handled, of /delete commands sent

vars == <<db, ud, conv, kbd, owner, inbox, raced, last, events>>

ConversationNames == {"game", "customgame"}

Sessions == ConversationNames \X AllChats

NoSession == <<"none", 0>>

\* states whose only handler is a CallbackQueryHandler (without a pattern)
CallbackStates(h) ==
    IF h = "game" THEN {"ADD_PLAYERS", "SELECT_WINNER", "RECORD_ELIMINATIONS"}
    ELSE {"ADD_PLAYERS", "RECORD_OUTCOMES", "RECORD_ELIMINATIONS"}

\* application.add_handler order (src/main.py:63-64): the /game conversation
\* is asked first, /customgame only when /game does not take the update
FirstIn(chat, taken) ==
    IF conv[<<"game", chat>>] \in taken["game"] THEN <<"game", chat>>
    ELSE IF conv[<<"customgame", chat>>] \in taken["customgame"] THEN <<"customgame", chat>>
    ELSE NoSession

\* every state of the conversations
ConversationStates ==
    {"END", "CONFIRM_GAME"} \cup CallbackStates("game") \cup CallbackStates("customgame")

CallbackTarget(chat) == FirstIn(chat, [h \in ConversationNames |-> CallbackStates(h)])

TextTarget(chat) == FirstIn(chat, [h \in ConversationNames |-> {"CONFIRM_GAME"}])

CancelTarget(chat) == FirstIn(chat, [h \in ConversationNames |-> ConversationStates \ {"END"}])

\* the handler the ConversationHandler runs for a button in a state
Dispatch(h, st, d, u, chat, b) ==
    IF h = "game"
    THEN IF st = "ADD_PLAYERS" THEN game_handle_player_selection(d, u, chat, b)
         ELSE IF st = "SELECT_WINNER" THEN game_handle_winner_selection(d, u, chat, b)
         ELSE game_handle_elimination_selection(d, u, chat, b)
    ELSE IF st = "ADD_PLAYERS" THEN custom_handle_player_selection(d, u, chat, b)
         ELSE IF st = "RECORD_OUTCOMES" THEN custom_handle_outcome_selection(d, u, chat, b)
         ELSE custom_handle_elimination_selection(d, u, chat, b)

NoRef == << >>

\* last: the call of add_game or request_game_deletion made by the update
\* the updates the flow specification handles after the players were added
MaxFlowEvents == 7

\* the largest game id the reference specification commits
MaxRefId == 48

\* handled last: the store before the call (pre), the draft before and
\* after it, the storage failure the environment injected, and the answer;
\* for a confirmation also the text, the store as add_game left it (stored),
\* the users send_message was called for and those it reached
NoCall ==
    [ op |-> "event", pre |-> EmptyStore, game |-> NewGame(0), after |-> NewGame(0),
      fail |-> "none", ok |-> TRUE, err |-> "none", who |-> 0,
      user |-> 0, ref |-> NoRef, status |-> "none", session |-> NoSession,
      attempted |-> {}, delivered |-> {}, stored |-> EmptyStore, text |-> "",
      salt |-> DATABASE_SALT, message |-> NoSession, button |-> Btn("", 0, ""),
      chain |-> FALSE, current |-> {}, advances |-> 0, offered |-> FALSE ]

AddGameCall(pre, game, fail, r) ==
    [ NoCall EXCEPT !.op = "add_game", !.pre = pre, !.game = game, !.after = r.game,
                    !.fail = fail, !.ok = r.ok, !.err = r.err, !.who = r.who ]

\* a start command for conversation k, with the draft it found in user_data
StartCall(u, k) ==
    [ NoCall EXCEPT !.op = "start", !.session = k, !.pre = db,
                    !.game = IF Has(u, "current_game") THEN u.current_game ELSE NewGame(0) ]

DeleteCall(pre, user, ref, fail, status) ==
    [ NoCall EXCEPT !.op = "delete", !.pre = pre, !.fail = fail, !.user = user,
                    !.ref = ref, !.status = status, !.ok = (status # "error") ]

Init ==
    /\ db = EmptyStore
    /\ ud = NoUserData
    /\ conv = [k \in Sessions |-> "END"]
    /\ kbd = [k \in Sessions |-> {}]
    /\ owner = NoSession
    /\ inbox = {}
    /\ raced = {}
    /\ last = NoCall
    /\ events = 0

\* one more update of the Operator is handled
Tick == events < MaxEvents /\ events' = events + 1

\* the new state of a conversation after its handler returned
Moved(k, r) == [conv EXCEPT ![k] = IF r.next = "SAME" THEN @ ELSE r.next]

OwnerAfter(u) == IF Has(u, "current_game") THEN owner ELSE NoSession

(***************************************************************************)
(* Updates of the Operator                                                 *)
(***************************************************************************)
\* /game in a chat whose /game conversation is not running
CommandGame(chat) ==
    LET k == <<"game", chat>>
        r == game_start_game(db, ud, chat)
    IN /\ Tick
       /\ conv[k] = "END"
       /\ ud' = r.ud
       /\ conv' = Moved(k, r)
       /\ kbd' = [kbd EXCEPT ![k] = IF r.sent THEN r.kbd ELSE @]
       /\ owner' = IF ValidContext(db, chat) THEN k ELSE owner
       /\ last' = StartCall(ud, k)
       /\ UNCHANGED <<db, inbox, raced>>

\* /customgame in a chat whose /customgame conversation is not running
CommandCustomGame(chat) ==
    LET k == <<"customgame", chat>>
        r == custom_start_game(db, ud, chat)
    IN /\ Tick
       /\ conv[k] = "END"
       /\ ud' = r.ud
       /\ conv' = Moved(k, r)
       /\ kbd' = [kbd EXCEPT ![k] = IF r.sent THEN r.kbd ELSE @]
       /\ owner' = IF ValidContext(db, chat) THEN k ELSE owner
       /\ last' = StartCall(ud, k)
       /\ UNCHANGED <<db, inbox, raced>>

\* a button press as the conversation k took it in state status: the
\* message and the button, and whether the handler returned a state (ok) or
\* ended in an error, its own or one that its UnitHandler swallowed.
\* chain: every update since conversation k left ADD_PLAYERS was a button
\* press that k took; along the chain, current collects the players the
\* elimination picker was shown for and advances counts the presses of
\* done_eliminations
\* the keyboard that the prompt of conversation k draws in its state over
\* the user_data as it is
CurrentPrompt(k) ==
    LET chat == k[2] IN
    IF conv[k] = "ADD_PLAYERS" THEN PlayerSelectionReply(db, ud, chat).kbd
    ELSE IF conv[k] = "SELECT_WINNER" THEN WinnerSelectionReply(db, ud, chat).kbd
    ELSE IF conv[k] = "RECORD_OUTCOMES" THEN OutcomeSelectionReply(db, ud, chat).kbd
    ELSE IF conv[k] # "RECORD_ELIMINATIONS" THEN {}
    ELSE IF k[1] = "game" THEN game_EliminationSelectionHandler(db, ud, chat).kbd
    ELSE EliminationSelectionReply(db, ud, chat, TRUE, TRUE).kbd

\* the updates since the start command of conversation k (or since the
\* picker the flow specification begins with) were presses that k took
\* for buttons of its own picker message, drawn as its prompt draws it now
OfferedSoFar(k) ==
    \/ last.op = "event"
    \/ last.op = "start" /\ last.session = k
    \/ last.op = "button" /\ last.session = k /\ last.offered

ButtonCall(k, m, b, r) ==
    LET leaving   == conv[k] = "ADD_PLAYERS" /\ r.next \notin {"SAME", "ADD_PLAYERS"}
        continued == /\ last.op = "button" /\ last.session = k /\ last.chain
                     /\ conv[k] # "ADD_PLAYERS"
        shown     == IF r.next = "RECORD_ELIMINATIONS" /\ Has(r.ud, "current_player_id")
                     THEN {r.ud.current_player_id} ELSE {}
        advance   == IF b = DoneEliminations /\ conv[k] = "RECORD_ELIMINATIONS" THEN 1 ELSE 0
    IN [ NoCall EXCEPT !.op = "button", !.session = k, !.status = conv[k],
                       !.message = m, !.button = b, !.ok = (r.next # "SAME"),
                       !.chain = leaving \/ continued,
                       !.current = IF continued THEN last.current \cup shown
                                   ELSE IF leaving THEN shown ELSE {},
                       !.advances = IF continued THEN last.advances + advance ELSE 0,
                       !.offered = OfferedSoFar(k) /\ m = k /\ kbd[k] = CurrentPrompt(k) ]

\* a button of the picker message m is pressed; the reply edits that message
Press(chat, m, b, recorded) ==
    LET k == CallbackTarget(chat)
        r == Dispatch(k[1], conv[k], db, ud, chat, b)
    IN /\ Tick
       /\ m[2] = chat
       /\ b \in kbd[m]
       /\ k # NoSession
       /\ ud' = r.ud
       /\ conv' = Moved(k, r)
       /\ kbd' = [kbd EXCEPT ![m] = IF r.sent THEN r.kbd ELSE @]
       /\ owner' = OwnerAfter(r.ud)
       /\ last' = IF recorded THEN ButtonCall(k, m, b, r) ELSE NoCall
       /\ UNCHANGED <<db, inbox, raced>>

PressButton(chat, m, b) == Press(chat, m, b, FALSE)

\* the same press, with the call kept in last
PressRecorded(chat, m, b) == Press(chat, m, b, TRUE)

\* /cancel: cancel_command of the first running conversation of the chat
CommandCancel(chat) ==
    LET k == CancelTarget(chat)
    IN /\ Tick
       /\ k # NoSession
       /\ ud' = reset_user_data(ud)
       /\ conv' = [conv EXCEPT ![k] = "END"]
       /\ owner' = NoSession
       /\ last' = [NoCall EXCEPT !.op = "cancel", !.pre = db, !.session = k]
       /\ UNCHANGED <<db, kbd, inbox, raced>>

\* conversation_timeout=300 of the /customgame ConversationHandler: with no
\* update for the conversation in the window, the library moves it to END;
\* no handler is registered for the TIMEOUT state, so nothing else runs.
\* The /game ConversationHandler sets no conversation_timeout.
Expire(chat) ==
    LET k == <<"customgame", chat>>
    IN /\ Tick
       /\ conv[k] # "END"
       /\ conv' = [conv EXCEPT ![k] = "END"]
       /\ last' = [NoCall EXCEPT !.op = "timeout", !.pre = db, !.session = k]
       /\ UNCHANGED <<db, ud, kbd, owner, inbox, raced>>

\* the texts a user may send while a conversation awaits confirmation
TextInputs == {"confirm", "CONFIRM", "cancel", "Cancel", "other"}

\* text compared as sent, without lower()
keep_case(text) == text

\* update.message.text.lower() on the texts a user may send
lower(text) ==
    CASE text = "CONFIRM" -> "confirm"
      [] text = "Cancel"  -> "cancel"
      [] OTHER            -> text

\* the participants the broadcast loop of handle_game_confirmation calls
\* send_message for: game.outcomes[player_id] is read inside the try block,
\* so a participant without outcome is skipped with a logged warning
Attempted(game) == {t \in Range(game.players) : t \in DOMAIN game.outcomes}

\* handle_game_confirmation on a text that does not read "confirm"
TextMessage(chat, text) ==
    LET k == TextTarget(chat)
    IN /\ Tick
       /\ k # NoSession
       /\ text \in TextInputs
       /\ lower(text) # "confirm"
       /\ IF ~Has(ud, "current_game")
          THEN UNCHANGED <<ud, conv, owner>>
          ELSE IF lower(text) = "cancel"
          THEN /\ ud' = reset_user_data(ud)
               /\ conv' = [conv EXCEPT ![k] = "END"]
               /\ owner' = NoSession
          ELSE UNCHANGED <<ud, conv, owner>>
       /\ last' = [NoCall EXCEPT
                      !.op = IF Has(ud, "current_game") /\ lower(text) = "cancel"
                             THEN "cancel" ELSE "text",
                      !.pre = db, !.session = k, !.text = text]
       /\ UNCHANGED <<db, kbd, inbox, raced>>

\* handle_game_confirmation on "confirm": add_game, then one send_message
\* per participant, each in its own try block (lost: the users Telegram
\* refuses to deliver to); a RuntimeError of add_game leaves the
\* conversation where it is; after the broadcast /customgame resets
\* user_data, /game does not
Confirm(chat, text, fail, lost) ==
    LET k == TextTarget(chat)
        r == AddGame(db, ud.current_game, fail)
        ud1 == SetGame(ud, r.game)
    IN /\ Tick
       /\ k # NoSession
       /\ text \in TextInputs
       /\ lower(text) = "confirm"
       /\ IF ~Has(ud, "current_game")
          THEN /\ UNCHANGED <<db, ud, conv, owner>>
               /\ last' = [NoCall EXCEPT !.op = "text", !.pre = db, !.session = k,
                                          !.text = text]
          ELSE /\ Cardinality(r.db.games) <= MaxGames
               /\ db' = r.db
               /\ IF r.ok
                  THEN /\ ud' = IF k[1] = "customgame" THEN reset_user_data(ud1) ELSE ud1
                       /\ conv' = [conv EXCEPT ![k] = "END"]
                       /\ owner' = IF k[1] = "customgame" THEN NoSession ELSE owner
                       /\ last' = [AddGameCall(db, ud.current_game, fail, r) EXCEPT
                                      !.session = k, !.text = text, !.stored = r.db,
                                      !.attempted = Attempted(r.game),
                                      !.delivered = Attempted(r.game) \ lost]
                  ELSE /\ ud' = ud1
                       /\ UNCHANGED <<conv, owner>>
                       /\ last' = [AddGameCall(db, ud.current_game, fail, r) EXCEPT
                                      !.session = k, !.text = text]
       /\ UNCHANGED <<kbd, inbox, raced>>

(***************************************************************************)
(* /delete: src/telegram_bot/handlers/delete.py                            *)
(***************************************************************************)
GameIds == 1 .. (MaxGames + 1)

References == {Encode(i) : i \in GameIds}

\* a user sends /delete <reference>
SendDelete(user, ref) ==
    LET call == [user |-> user, ref |-> ref, raced |-> FALSE]
        rivals == {c \in inbox : c.ref = ref /\ c.user # user}
    IN /\ Cardinality(inbox) < MaxPendingDeletes
       /\ events < MaxDeleteCalls
       /\ events' = events + 1
       /\ \A c \in inbox : ~(c.user = user /\ c.ref = ref)
       /\ inbox' = (inbox \ rivals)
                   \cup {[c EXCEPT !.raced = TRUE] : c \in rivals}
                   \cup {[call EXCEPT !.raced = rivals # {}]}
       \* a new race: the answers of the race before are forgotten
       /\ raced' = IF rivals # {} /\ \A c \in rivals : ~c.raced THEN {} ELSE raced
       /\ UNCHANGED <<db, ud, conv, kbd, owner, last>>

\* the user has a result row in the game with that reference
Participant(d, ref, user) ==
    \E g \in GamesByReference(d, ref) :
       /\ HasPlayer(d, g.pod_id, user)
       /\ \E r \in d.results : /\ r.game_id = g.game_id
                                /\ r.player_id = PlayerOf(d, g.pod_id, user).pods_player_id

\* the pod players with a recorded deletion request on that game
Requesters(d, ref) ==
    {q.requester_id : q \in {x \in d.reqs : \E g \in GamesByReference(d, ref) :
                                               x.game_id = g.game_id}}

\* handle_delete_game: the lookup of line 22 and request_game_deletion
HandleDelete(call, fail) ==
    LET r == IF GamesByReference(db, call.ref) = {}
             THEN [db |-> db, status |-> "no_game"]
             ELSE RequestGameDeletion(db, call.ref, call.user, fail)
    IN /\ call \in inbox
       /\ fail \in {"none", "commit"}
       /\ inbox' = inbox \ {call}
       /\ db' = r.db
       /\ raced' = IF call.raced
                   THEN raced \cup {[ user |-> call.user, ref |-> call.ref, fail |-> fail,
                                      played |-> Participant(db, call.ref, call.user),
                                      prior |-> Cardinality(Requesters(db, call.ref)),
                                      status |-> r.status ]}
                   ELSE raced
       /\ last' = DeleteCall(db, call.user, call.ref, fail, r.status)
       /\ UNCHANGED <<ud, conv, kbd, owner, events>>

(***************************************************************************)
(* The directory changes behind the bot's back: a pod player that no row   *)
(* refers to is removed from the pods_players table.                       *)
(***************************************************************************)
Referenced(d, p) ==
    \/ \E r \in d.results : r.player_id = p.pods_player_id
    \/ \E e \in d.elims : p.pods_player_id \in {e.eliminator_id, e.eliminated_id}
    \/ \E q \in d.reqs : q.requester_id = p.pods_player_id

RemovePlayer(p) ==
    /\ Tick
    /\ p \in db.players
    /\ ~Referenced(db, p)
    /\ Cardinality(InitialDirectory \ db.players) < MaxRemovals
    /\ db' = [db EXCEPT !.players = @ \ {p}]
    /\ last' = [NoCall EXCEPT !.op = "remove_player", !.who = p.telegram_id]
    /\ UNCHANGED <<ud, conv, kbd, owner, inbox, raced>>

\* the chats in which the Operator records games
RecordingChats == {10}

\* the chats in which the Operator sends /game and /customgame
StartChats == RecordingChats \cup PodlessGroups \cup PrivateChats

Next ==
    \/ \E chat \in RecordingChats : CommandGame(chat)
    \/ \E chat \in RecordingChats : CommandCustomGame(chat)
    \/ \E chat \in RecordingChats : \E m \in Sessions : \E b \in kbd[m] : PressButton(chat, m, b)
    \/ \E chat \in RecordingChats : CommandCancel(chat)
    \/ \E chat \in RecordingChats : Expire(chat)
    \/ \E chat \in RecordingChats : \E text \in TextInputs : TextMessage(chat, text)
    \/ \E chat \in RecordingChats : \E text \in TextInputs : \E fail \in FailPoints :
           \E lost \in (IF fail = "none" /\ Has(ud, "current_game")
                        THEN SUBSET Range(ud.current_game.players) ELSE {{}}) :
               Confirm(chat, text, fail, lost)
    \/ \E p \in db.players : p.pod_id \in RecordingChats /\ RemovePlayer(p)

Spec == Init /\ [][Next]_vars

(***************************************************************************)
(* The deletion protocol on its own: the store holds games that add_game   *)
(* committed earlier, users send /delete and the bot handles the commands  *)
(* one at a time in any order.                                             *)
(***************************************************************************)
\* the /game flow up to the summary: players added in order, the first one
\* wins and has eliminated the players in eliminated
RECURSIVE AddPlayers(_, _)
AddPlayers(g, players) ==
    IF players = << >> THEN g
    ELSE AddPlayers(add_player(g, Head(players)), Tail(players))

RecordedGame(pod, players, eliminated) ==
    LET g == RecordWinnerOutcomes(AddPlayers(NewGame(pod), players), players, Head(players)).game
    IN [g EXCEPT !.eliminations = [t \in eliminated |-> Head(players)]]

RecordedGames ==
    { RecordedGame(10, <<1, 2>>, {}),
      RecordedGame(10, <<2, 3>>, {3}),
      RecordedGame(10, <<1, 2, 3>>, {2, 3}) }

\* user 3 is a player of pod 10 in one directory and a stranger in the other
Directories == { InitialDirectory, InitialDirectory \cup {PodPlayerRow(3, 10, 3)} }

\* the stores after no, one or two commits; a draft that add_game refuses
\* leaves the store it was offered to
CommittedStores ==
    LET none == {[EmptyStore EXCEPT !.players = dir] : dir \in Directories}
        one  == {AddGame(d, g, "none").db : d \in none, g \in RecordedGames}
        two  == {AddGame(d, g, "none").db : d \in one, g \in RecordedGames}
    IN none \cup one \cup two

InitDel ==
    /\ db \in CommittedStores
    /\ ud = NoUserData
    /\ conv = [k \in Sessions |-> "END"]
    /\ kbd = [k \in Sessions |-> {}]
    /\ owner = NoSession
    /\ inbox = {}
    /\ raced = {}
    /\ last = NoCall
    /\ events = 0

NextDel ==
    \/ \E user \in Users : \E ref \in References : SendDelete(user, ref)
    \/ \E call \in inbox : \E fail \in {"none", "commit"} : HandleDelete(call, fail)

SpecDel == InitDel /\ [][NextDel]_vars

(***************************************************************************)
(* The entry specification: the start commands sent from every kind of     *)
(* chat, between the updates that build and drop drafts                    *)
(***************************************************************************)
NextEntry ==
    \/ \E chat \in StartChats : CommandGame(chat)
    \/ \E chat \in StartChats : CommandCustomGame(chat)
    \/ \E chat \in RecordingChats : \E m \in Sessions : \E b \in kbd[m] : PressButton(chat, m, b)
    \/ \E chat \in RecordingChats : CommandCancel(chat)
    \/ \E chat \in RecordingChats : Expire(chat)

SpecEntry == Init /\ [][NextEntry]_vars

(***************************************************************************)
(* The draft specification: the methods of Game applied to one draft, with *)
(* every identity and outcome as argument                                  *)
(***************************************************************************)
\* the eliminations arguments: dicts of one or two keys
EliminatedLists ==
    {<<a>> : a \in Users} \cup {p \in Users \X Users : p[1] # p[2]}

DraftCall(op, g, tid, r) ==
    [NoCall EXCEPT !.op = op, !.game = g, !.after = r.game, !.ok = r.ok, !.who = tid]

InitDraft ==
    /\ db = EmptyStore
    /\ \E pod \in Chats : ud = SetGame(NoUserData, NewGame(pod))
    /\ conv = [k \in Sessions |-> "END"]
    /\ kbd = [k \in Sessions |-> {}]
    /\ owner = NoSession
    /\ inbox = {}
    /\ raced = {}
    /\ last = NoCall
    /\ events = 0

\* Game.add_player on the draft
DraftAddPlayer(tid) ==
    LET g == ud.current_game
        call == DraftCall("add_player", g, tid, [ok |-> TRUE, game |-> add_player(g, tid)])
    IN /\ events < MaxDraftCalls
       /\ events' = events + 1
       /\ ud' = SetGame(ud, call.after)
       /\ last' = call
       /\ UNCHANGED <<db, conv, kbd, owner, inbox, raced>>

\* Game.record_outcome on the draft, eliminations left at its default
DraftRecordOutcome(tid, outcome) ==
    LET g == ud.current_game
        call == DraftCall("record_outcome", g, tid, record_outcome(g, tid, outcome))
    IN /\ events < MaxDraftCalls
       /\ events' = events + 1
       /\ ud' = SetGame(ud, call.after)
       /\ last' = call
       /\ UNCHANGED <<db, conv, kbd, owner, inbox, raced>>

\* Game.record_outcome on the draft with an eliminations argument
DraftRecordOutcomeWith(tid, outcome, eliminated) ==
    LET g == ud.current_game
        call == DraftCall("record_outcome", g, tid,
                          record_outcome_with(g, tid, outcome, eliminated))
    IN /\ events < MaxDraftCalls
       /\ events' = events + 1
       /\ ud' = SetGame(ud, call.after)
       /\ last' = call
       /\ UNCHANGED <<db, conv, kbd, owner, inbox, raced>>

\* GameManager.add_game on the draft: finalize and commit
DraftAddGame ==
    LET g == ud.current_game
        r == AddGame(db, g, "none")
    IN /\ events < MaxDraftCalls
       /\ events' = events + 1
       /\ db' = r.db
       /\ ud' = SetGame(ud, r.game)
       /\ last' = [AddGameCall(db, g, "none", r) EXCEPT !.stored = r.db]
       /\ UNCHANGED <<conv, kbd, owner, inbox, raced>>

NextDraft ==
    \/ DraftAddGame
    \/ \E tid \in Users : DraftAddPlayer(tid)
    \/ \E tid \in Users : \E outcome \in Outcomes : DraftRecordOutcome(tid, outcome)
    \/ \E tid \in Users : \E outcome \in Outcomes : \E eliminated \in EliminatedLists :
           DraftRecordOutcomeWith(tid, outcome, eliminated)

SpecDraft == InitDraft /\ [][NextDraft]_vars

(***************************************************************************)
(* The flow specification: the two recording conversations of chat 10 from *)
(* a picker with some players added up to the summary, every button press  *)
(* kept in last; MaxFlowEvents updates are handled from there               *)
(***************************************************************************)
\* the orders in which one, two or three different users can be added
PlayerOrders ==
    {<<a>> : a \in Users} \cup {p \in Users \X Users : p[1] # p[2]}
    \cup {p \in Users \X Users \X Users : p[1] # p[2] /\ p[1] # p[3] /\ p[2] # p[3]}

\* start_game of conversation h, then the add_player buttons of players
RECURSIVE AfterAdds(_, _, _)
AfterAdds(h, d, players) ==
    IF players = << >>
    THEN IF h = "game" THEN game_start_game(d, NoUserData, 10)
         ELSE custom_start_game(d, NoUserData, 10)
    ELSE Dispatch(h, "ADD_PLAYERS", d,
                  AfterAdds(h, d, SubSeq(players, 1, Len(players) - 1)).ud, 10,
                  Btn("add_player", players[Len(players)], ""))

InitFlow ==
    \E dir \in Directories : \E h \in ConversationNames : \E players \in PlayerOrders :
       LET d == [EmptyStore EXCEPT !.players = dir]
           r == AfterAdds(h, d, players)
           k == <<h, 10>>
       IN /\ Range(players) \subseteq PodMembers(d, 10)
          /\ db = d
          /\ ud = r.ud
          /\ conv = [s \in Sessions |-> IF s = k THEN "ADD_PLAYERS" ELSE "END"]
          /\ kbd = [s \in Sessions |-> IF s = k THEN r.kbd ELSE {}]
          /\ owner = k
          /\ inbox = {}
          /\ raced = {}
          /\ last = NoCall
          /\ events = MaxEvents - MaxFlowEvents

NextFlow ==
    \/ \E chat \in RecordingChats : CommandGame(chat)
    \/ \E chat \in RecordingChats : CommandCustomGame(chat)
    \/ \E chat \in RecordingChats : \E m \in Sessions : \E b \in kbd[m] : PressRecorded(chat, m, b)
    \/ \E chat \in RecordingChats : CommandCancel(chat)
    \/ \E chat \in RecordingChats : Expire(chat)

SpecFlow == InitFlow /\ [][NextFlow]_vars

(***************************************************************************)
(* The reference specification: games are committed one after the other    *)
(* under the DATABASE_SALT of the deployment, and each gets the reference  *)
(* that finalize works out from its game_id                                *)
(***************************************************************************)
\* os.getenv("DATABASE_SALT"): '', 'SECRET_SALT', 'a', 'edh'
Salts == { << >>, DATABASE_SALT, <<97>>, <<101, 100, 104>> }

ReferenceCall(pre, gid, ref, ok) ==
    [ NoCall EXCEPT !.op = "reference", !.pre = pre, !.who = gid, !.ref = ref, !.ok = ok,
                    !.salt = last.salt ]

InitRef ==
    /\ db = EmptyStore
    /\ ud = NoUserData
    /\ conv = [k \in Sessions |-> "END"]
    /\ kbd = [k \in Sessions |-> {}]
    /\ owner = NoSession
    /\ inbox = {}
    /\ raced = {}
    /\ last \in {[NoCall EXCEPT !.salt = salt] : salt \in Salts}
    /\ events = 0

\* the games row of finalize and the commit of add_game: the row gets the
\* next id of the store and the reference of that id; a reference that a
\* row already holds violates the unique index and the commit is rolled back
CommitReference ==
    LET gid == NextGameId(db)
        ref == encode(Hashids(last.salt), <<gid>>)
        row == [game_id |-> gid, pod_id |-> 10, deletion_reference |-> ref]
        duplicate == GamesByReference(db, ref) # {}
    IN /\ gid <= MaxRefId
       /\ db' = IF duplicate THEN db ELSE [db EXCEPT !.games = @ \cup {row}]
       /\ last' = ReferenceCall(db, gid, ref, ~duplicate)
       /\ UNCHANGED <<ud, conv, kbd, owner, inbox, raced, events>>

NextRef == CommitReference

SpecRef == InitRef /\ [][NextRef]_vars

(***************************************************************************)
(* The directory specification: users join pods through                    *)
(* GameManager.create_player, src/telegram_bot/models/game.py              *)
(***************************************************************************)
\* the calls of create_player the directory specification follows
MaxJoinCalls == 4

\* the chats /profile creates a player for: the pods and a group without pod
JoinChats == Chats \cup PodlessGroups

\* INTEGER PRIMARY KEY of pods_players: largest rowid + 1
NextPodPlayerId(d) == Max({p.pods_player_id : p \in d.players}) + 1

\* create_player without the look at self.pods
create_player_in_any_pod(d, telegram_id, pod_id, commit_fails) ==
    IF HasPlayer(d, pod_id, telegram_id) THEN [ok |-> FALSE, db |-> d]
    ELSE IF commit_fails THEN [ok |-> FALSE, db |-> d]
    ELSE [ok |-> TRUE,
          db |-> [d EXCEPT !.players =
                     @ \cup {PodPlayerRow(NextPodPlayerId(d), pod_id, telegram_id)}]]

\* GameManager.create_player: ValueError for a pod that does not exist and
\* for a (telegram_id, pod_id) that has a row; otherwise the row is added
\* and committed. _safe_commit rolls a failed commit back and raises; the
\* commit also fails on uq_pod_player (pod_id, telegram_id)
create_player(d, telegram_id, pod_id, commit_fails) ==
    IF pod_id \notin d.pods THEN [ok |-> FALSE, db |-> d]
    ELSE IF HasPlayer(d, pod_id, telegram_id) THEN [ok |-> FALSE, db |-> d]
    ELSE LET pod_player == PodPlayerRow(NextPodPlayerId(d), pod_id, telegram_id)
             uq_pod_player == \A p \in d.players :
                                 ~(p.pod_id = pod_id /\ p.telegram_id = telegram_id)
         IN IF commit_fails \/ ~uq_pod_player THEN [ok |-> FALSE, db |-> d]
            ELSE [ok |-> TRUE, db |-> [d EXCEPT !.players = @ \cup {pod_player}]]

CreatePlayerCall(pre, telegram_id, pod_id, commit_fails, r) ==
    [ NoCall EXCEPT !.op = "create_player", !.pre = pre, !.user = telegram_id,
                    !.session = <<"profile", pod_id>>, !.ok = r.ok,
                    !.fail = IF commit_fails THEN "commit" ELSE "none" ]

InitJoin ==
    \E dir \in Directories :
       /\ db = [EmptyStore EXCEPT !.players = dir]
       /\ ud = NoUserData
       /\ conv = [k \in Sessions |-> "END"]
       /\ kbd = [k \in Sessions |-> {}]
       /\ owner = NoSession
       /\ inbox = {}
       /\ raced = {}
       /\ last = NoCall
       /\ events = MaxEvents - MaxJoinCalls

\* the profile conversation of a user in a chat reaches create_player
CreatePlayer(telegram_id, chat, commit_fails) ==
    LET r == create_player(db, telegram_id, chat, commit_fails)
    IN /\ Tick
       /\ db' = r.db
       /\ last' = CreatePlayerCall(db, telegram_id, chat, commit_fails, r)
       /\ UNCHANGED <<ud, conv, kbd, owner, inbox, raced>>

NextJoin ==
    \E telegram_id \in Users : \E chat \in JoinChats : \E commit_fails \in BOOLEAN :
        CreatePlayer(telegram_id, chat, commit_fails)

SpecJoin == InitJoin /\ [][NextJoin]_vars

(***************************************************************************)
(* Properties                                                              *)
(***************************************************************************)
\* the game row a /delete call found before it ran
GameBefore(call) == CHOOSE g \in GamesByReference(call.pre, call.ref) : TRUE

\* a /delete call on an existing game that no storage failure disturbed
DeleteOfExistingGame ==
    /\ last.op = "delete"
    /\ last.fail = "none"
    /\ GamesByReference(last.pre, last.ref) # {}

\* the pods_player_id of the requester of the last /delete call
RequesterRowId == PlayerOf(last.pre, GameBefore(last).pod_id, last.user).pods_player_id

\* the last /delete call is by a participant without a recorded request
NewEligibleRequest ==
    /\ DeleteOfExistingGame
    /\ Participant(last.pre, last.ref, last.user)
    /\ RequesterRowId \notin Requesters(last.pre, last.ref)

\* C1: a requestDeletion call by a participant returns 'deleted' and purges
\* the game exactly when it brings the number of distinct recorded
\* requesters of the game to 2; a repeated call by a recorded requester
\* returns 'already_requested' and changes nothing; a first recorded
\* request returns 'pending' and leaves the game committed.
C1_DeletedExactlyAtSecondRequester ==
    (DeleteOfExistingGame /\ Participant(last.pre, last.ref, last.user)) =>
        LET prior == Requesters(last.pre, last.ref)
            brings == RequesterRowId \notin prior /\ Cardinality(prior) = 1
        IN /\ (last.status = "deleted") <=> brings
           /\ brings => GamesByReference(db, last.ref) = {}
           /\ RequesterRowId \in prior => (last.status = "already_requested" /\ db = last.pre)
           /\ (RequesterRowId \notin prior /\ prior = {}) =>
                 /\ last.status = "pending"
                 /\ GamesByReference(db, last.ref) # {}

\* C2: requestDeletion by a user who has no result in the existing game
\* returns 'not_in_game', records no deletion request and leaves the store
\* as it was, also when the user is a player of the game's pod.
C2_NonParticipantIsRefused ==
    (DeleteOfExistingGame /\ ~Participant(last.pre, last.ref, last.user)) =>
        (last.status = "not_in_game" /\ db = last.pre)

C10_ExactlyOneConcurrentCallDeletes ==
    \A a \in raced : \A b \in raced :
        ( /\ a.ref = b.ref /\ a.user # b.user
          /\ a.played /\ b.played
          /\ a.fail = "none" /\ b.fail = "none"
          /\ a.prior = 0 /\ b.prior = 1 ) =>
        /\ Cardinality({c \in {a, b} : c.status = "deleted"}) = 1
        /\ ~(a.status = "pending" /\ b.status = "pending")

\* C4: an add_game call that fails, at whatever step, leaves the store with
\* exactly the rows it held before the call.
C4_FailedAddGameLeavesStore ==
    (last.op = "add_game" /\ ~last.ok) => db = last.pre

\* an add_game call failed at the insertion of the elimination rows, after
\* the game row and the result rows had been flushed
C4_Witness ==
    /\ last.op = "add_game" /\ ~last.ok
    /\ last.fail = "elims" /\ last.err = "storage"
    /\ last.after.game_id # 0
    /\ DOMAIN last.game.eliminations # {}

\* the participants of the draft of the last add_game call that had no
\* PodPlayer in the draft's pod when the call was made
Drifted == {t \in Range(last.game.players) : ~HasPlayer(last.pre, last.game.pod_id, t)}

\* C5: add_game succeeds only if every participant of the draft has a
\* PodPlayer in the draft's pod; otherwise it fails naming a participant
\* without one and leaves the store alone; every result row of a committed
\* game belongs to a player of the game's pod.
C5_UnknownPlayerIsNamed ==
    /\ last.op = "add_game" =>
          /\ last.ok => Drifted = {}
          /\ Drifted # {} => /\ ~last.ok
                              /\ last.err = "player_not_found"
                              /\ last.who \in Drifted
                              /\ db = last.pre
    /\ \A g \in db.games : \A r \in db.results :
          r.game_id = g.game_id =>
             \E p \in db.players : p.pods_player_id = r.player_id /\ p.pod_id = g.pod_id

\* add_game refused a draft with a participant that had left the pod
C5_Witness ==
    /\ last.op = "add_game" /\ ~last.ok
    /\ last.err = "player_not_found"
    /\ last.who \in Drifted
    /\ DOMAIN last.game.outcomes # {}

\* C6: add_game fails and persists nothing whenever a participant of the
\* draft has no recorded outcome.
C6_DraftWithoutOutcomeIsRefused ==
    ( /\ last.op = "add_game"
      /\ \E t \in Range(last.game.players) : t \notin DOMAIN last.game.outcomes ) =>
        (~last.ok /\ db = last.pre)

\* C7: after a successful add_game the store holds exactly one game row
\* for the draft, one result row per participant with the recorded outcome
\* and one elimination row per entry of the elimination map; the game read
\* back by its reference has the participants, outcomes and eliminations
\* of the draft.
C7_CommittedGameMatchesDraft ==
    (last.op = "add_game" /\ last.ok) =>
        LET gid  == last.after.game_id
            rows == {g \in db.games : g.game_id = gid}
        IN /\ Cardinality(rows) = 1
           /\ Cardinality({r \in db.results : r.game_id = gid}) = Len(last.game.players)
           /\ Cardinality({e \in db.elims : e.game_id = gid})
                 = Cardinality(DOMAIN last.game.eliminations)
           /\ \A row \in rows :
                 /\ GamesByReference(db, row.deletion_reference) = {row}
                 /\ from_db_game(db, row).players = Range(last.game.players)
                 /\ from_db_game(db, row).outcomes = last.game.outcomes
                 /\ from_db_game(db, row).eliminations = last.game.eliminations

\* the result rows of player p in committed games of p's pod
CommittedResults(p) ==
    {r \in db.results : /\ r.player_id = p.pods_player_id
                        /\ \E g \in db.games : g.game_id = r.game_id /\ g.pod_id = p.pod_id}

\* C8: the statistics of every pod player count exactly the committed games
\* of the pod in which the player has a result: games_played, wins, losses
\* and draws by outcome, eliminations by the elimination rows of those
\* games whose eliminator is the player.
C8_StatsCountCommittedGames ==
    \A p \in db.players :
        LET s == get_player_stats(db, p.telegram_id, p.pod_id).stats
            mine == CommittedResults(p)
        IN /\ s.games_played = Cardinality(mine)
           /\ s.wins = Cardinality({r \in mine : r.outcome = "win"})
           /\ s.losses = Cardinality({r \in mine : r.outcome = "lose"})
           /\ s.draws = Cardinality({r \in mine : r.outcome = "draw"})
           /\ s.wins + s.losses + s.draws = s.games_played
           /\ s.eliminations =
                 Cardinality({e \in db.elims : /\ e.eliminator_id = p.pods_player_id
                                               /\ \E r \in mine : r.game_id = e.game_id})

\* C9: while a recording session is running and holds the draft it
\* started, an update that starts or moves another session leaves the
\* draft, the selected-players list, the eliminated-players list and the
\* current player as they were.
C9_SessionsDoNotShareDraft ==
    [][ \A k \in Sessions :
           ( /\ owner = k
             /\ conv[k] # "END"
             /\ \E k2 \in Sessions \ {k} : conv'[k2] # conv[k2] ) => ud' = ud ]_vars


\* the update handled by the step is part of drafting: a command, a button,
\* a text, a cancel, an expiry or a commit that add_game refused
DraftingStep ==
    /\ last'.op \in {"start", "event", "text", "cancel", "timeout", "add_game"}
    /\ last'.op = "add_game" => ~last'.ok

\* C11: a draft is invisible until committed: every add-player,
\* record-outcome, record-elimination, reset, cancel or refused-commit step
\* leaves the store, every player's statistics and the game history as they
\* were before the step, hence as they were when the session started
C11_DraftIsInvisibleUntilCommitted ==
    [][ DraftingStep =>
          /\ db' = db
          /\ \A t \in Users : \A pod \in Chats :
                 get_player_stats(db', t, pod) = get_player_stats(db, t, pod)
          /\ \A ref \in References :
                 GamesByReference(db', ref) = GamesByReference(db, ref) ]_vars

\* a draft with participants, outcomes and an elimination sits in
\* user_data while the store holds no game and no result
C11_Witness ==
    /\ Has(ud, "current_game")
    /\ Len(ud.current_game.players) >= 2
    /\ DOMAIN ud.current_game.outcomes # {}
    /\ DOMAIN ud.current_game.eliminations # {}
    /\ db.games = {} /\ db.results = {} /\ db.elims = {}


\* both sides of every elimination entry of game g take part in g
EliminationsAmongPlayers(players, eliminations) ==
    \A e \in DOMAIN eliminations : e \in players /\ eliminations[e] \in players

\* C13: in every reachable state of either recording flow and in every
\* committed game, the eliminated and the eliminator of every elimination
\* entry are participants of that game
C13_EliminationsAreAmongParticipants ==
    /\ Has(ud, "current_game") =>
          EliminationsAmongPlayers(Range(ud.current_game.players),
                                   ud.current_game.eliminations)
    /\ \A row \in db.games :
          EliminationsAmongPlayers(from_db_game(db, row).players,
                                   from_db_game(db, row).eliminations)


\* the last call on the draft was record_outcome for an identity that was
\* never added to it
OutcomeForStranger ==
    /\ last.op = "record_outcome"
    /\ last.who \notin Range(last.game.players)

\* C12: record_outcome for an identity that was never added to the draft
\* fails, and the draft's participants, outcomes (and their number) and
\* eliminations are what they were before the call
C12_OutcomeForStrangerIsRefused ==
    OutcomeForStranger =>
        /\ ~last.ok
        /\ last.after.players = last.game.players
        /\ last.after.outcomes = last.game.outcomes
        /\ Cardinality(DOMAIN last.after.outcomes) = Cardinality(DOMAIN last.game.outcomes)
        /\ last.after.eliminations = last.game.eliminations
        /\ ud.current_game = last.game

\* a draft with a participant and an outcome refused an outcome for an
\* identity outside it
C12_Witness ==
    /\ OutcomeForStranger
    /\ ~last.ok
    /\ last.game.players # << >>
    /\ DOMAIN last.game.outcomes # {}


\* C14: a cancel event (the /cancel command in any state, the text
\* "cancel" at the confirmation) ends the recording session of the chat it
\* is sent in and removes the draft and the session-local lists; nothing
\* of the draft is committed
C14_CancelEndsTheSession ==
    last.op = "cancel" =>
        /\ \A k \in Sessions : k[2] = last.session[2] => conv[k] = "END"
        /\ ud.keys = {}
        /\ db = last.pre


\* C15: when the inactivity window of a recording session passes with no
\* event, the session is over, no draft and no session-local list is left
\* in user_data, and nothing of the draft is committed
C15_ExpiryDiscardsTheDraft ==
    last.op = "timeout" =>
        /\ conv[last.session] = "END"
        /\ ud.keys = {}
        /\ db = last.pre


\* C16: in the /game flow "done" with fewer than 2 distinct participants
\* does not leave ADD_PLAYERS: a /game conversation past player selection
\* works on a draft of at least 2 participants, and so does every game
\* committed by a /game conversation
C16_StandardGameHasTwoParticipants ==
    /\ \A chat \in Chats :
          ( /\ conv[<<"game", chat>>] \in {"SELECT_WINNER", "RECORD_ELIMINATIONS", "CONFIRM_GAME"}
            /\ Has(ud, "current_game") ) =>
              Cardinality(Range(ud.current_game.players)) >= 2
    /\ (last.op = "add_game" /\ last.ok /\ last.session[1] = "game") =>
          Cardinality(Range(last.game.players)) >= 2


\* the spellings of "confirm" and of "cancel" among the texts sent
ConfirmSpellings == {"confirm", "CONFIRM"}

CancelSpellings == {"cancel", "Cancel"}

CommitReturned == last.op = "add_game" /\ last.ok

\* C18: after a successful commit send_message is called for every
\* participant of the game, whatever deliveries fail, and the game is in
\* the store whatever deliveries fail
C18_EveryParticipantIsNotified ==
    CommitReturned =>
        /\ last.attempted = Range(last.after.players)
        /\ last.delivered \subseteq last.attempted
        /\ db = last.stored


\* the last update was a "confirm" whose add_game call raised
CommitFailed == last.op = "add_game" /\ ~last.ok

\* the draft in user_data has the participants, outcomes and eliminations
\* of draft g
SameDraft(g) ==
    /\ Has(ud, "current_game")
    /\ ud.current_game.players = g.players
    /\ ud.current_game.outcomes = g.outcomes
    /\ ud.current_game.eliminations = g.eliminations

\* C19: when the add_game call of a "confirm" fails, the conversation still
\* awaits confirmation, the draft keeps its participants, outcomes and
\* eliminations, send_message was called for nobody, and a following
\* "confirm" calls add_game again on that draft in the same conversation
C19_FailedCommitCanBeRetried ==
    /\ [](CommitFailed =>
            /\ conv[last.session] = "CONFIRM_GAME"
            /\ SameDraft(last.game)
            /\ last.attempted = {} /\ last.delivered = {}
            /\ TextTarget(last.session[2]) = last.session)
    /\ [][ (CommitFailed /\ last'.text \in ConfirmSpellings) =>
             /\ last'.op = "add_game"
             /\ last'.session = last.session
             /\ last'.game.players = last.game.players
             /\ last'.game.outcomes = last.game.outcomes
             /\ last'.game.eliminations = last.game.eliminations ]_vars

\* a "confirm" failed in storage after the game row was flushed; the draft
\* with its two participants, outcomes and elimination still awaits
\* confirmation
C19_Witness ==
    /\ CommitFailed
    /\ last.err = "storage" /\ last.fail \in {"results", "elims", "flush", "commit"}
    /\ conv[last.session] = "CONFIRM_GAME"
    /\ Len(ud.current_game.players) >= 2
    /\ DOMAIN ud.current_game.outcomes = Range(ud.current_game.players)
    /\ DOMAIN ud.current_game.eliminations # {}


\* C20: a start command (/game or /customgame) over a draft left in
\* user_data does not fail and leaves an empty draft and empty selection
\* lists: nothing of the stale draft's participants, outcomes or
\* eliminations is in them
C20_StartYieldsFreshDraft ==
    (last.op = "start" /\ ValidContext(last.pre, last.session[2])) =>
        /\ conv[last.session] = "ADD_PLAYERS"
        /\ {"current_game", "added_players", "eliminated_players"} \subseteq ud.keys
        /\ ud.current_game = NewGame(last.session[2])
        /\ ud.added_players = << >>
        /\ ud.eliminated_players = << >>

\* a session was started over a draft that had participants, outcomes and
\* an elimination
C20_Witness ==
    /\ last.op = "start"
    /\ last.game.players # << >>
    /\ DOMAIN last.game.outcomes # {}
    /\ DOMAIN last.game.eliminations # {}
    /\ ud.current_game.players = << >>


\* the step handles /game or /customgame sent in a private chat or in a
\* group that has no pod
RejectedStart ==
    /\ last'.op = "start"
    /\ ~ValidContext(db, last'.session[2])

\* C21: /game or /customgame in a chat that is not a group, or in a group
\* without pod, is rejected at once: the conversation stays ended, no draft
\* is created and user_data, the pickers and the store are left as they were
C21_StartOutsidePodIsRejected ==
    [][ RejectedStart =>
          /\ conv'[last'.session] = "END"
          /\ conv' = conv
          /\ ud' = ud
          /\ kbd' = kbd
          /\ db' = db ]_vars

\* a start command was sent in a group without pod while user_data held a
\* draft with participants; the draft is still there
C21_Witness ==
    /\ last.op = "start"
    /\ last.session[2] \in PodlessGroups
    /\ conv[last.session] = "END"
    /\ Has(ud, "current_game")
    /\ ud.current_game.players # << >>
    /\ ud.current_game = last.game


\* the last /delete call answered "error"
DeletionErred == last.op = "delete" /\ last.status = "error"

\* C22: when request_game_deletion answers "error" the store is what it was
\* before the call: the game, its result and elimination rows and the
\* deletion requests recorded before are all there, and no new request is
\* recorded
C22_ErredDeletionLeavesStore ==
    DeletionErred =>
        /\ db = last.pre
        /\ GamesByReference(db, last.ref) = GamesByReference(last.pre, last.ref)
        /\ db.results = last.pre.results
        /\ db.elims = last.pre.elims
        /\ db.reqs = last.pre.reqs

\* the second participant's request for a game with results and an earlier
\* request was answered "error"
C22_Witness ==
    /\ DeletionErred
    /\ GamesByReference(last.pre, last.ref) # {}
    /\ \E g \in GamesByReference(db, last.ref) :
          /\ \E r \in db.results : r.game_id = g.game_id
          /\ \E q \in db.reqs : q.game_id = g.game_id
          /\ RequesterRowId \notin {q.requester_id : q \in {x \in db.reqs : x.game_id = g.game_id}}

\* C23: under every salt, no two committed games share a deletion
\* reference, decoding the reference of a committed game with the salt it
\* was made with gives back exactly its game_id, the reference worked out
\* for a new game is never one that a committed game already holds, and the
\* references of the other specifications are those of encode.
C23_ReferencesAreInjectiveAndDecodable ==
    /\ \A g1 \in db.games : \A g2 \in db.games :
          g1.deletion_reference = g2.deletion_reference => g1.game_id = g2.game_id
    /\ \A g \in db.games :
          decode(Hashids(last.salt), g.deletion_reference) = <<g.game_id>>
    /\ \A id \in 0 .. (Len(ReferenceTable) - 1) :
          Encode(id) = encode(Hashids(DATABASE_SALT), <<id>>)
    /\ last.op = "reference" =>
          /\ last.ok
          /\ GamesByReference(last.pre, last.ref) = {}
          /\ \E g \in db.games : g.game_id = last.who /\ g.deletion_reference = last.ref

\* a game whose id takes two digits of the alphabet of 44 characters is
\* committed next to the games of one digit
C23_Witness ==
    /\ last.op = "reference"
    /\ last.ok
    /\ last.who >= 44
    /\ \A id \in 1 .. last.who : \E g \in db.games : g.game_id = id

\* the step is a press of the button text that conversation h took in state
\* status, with a draft and a current player in user_data
TookButton(h, status, text) ==
    /\ last'.op = "button"
    /\ last'.session[1] = h
    /\ last'.status = status
    /\ last'.button.kind = text
    /\ Has(ud, "current_game")
    /\ Has(ud, "current_player_id")

\* C24: when the per-player-outcome conversation takes 'reset_eliminations'
\* for the current player X, the draft afterwards has no elimination whose
\* eliminator is X, every elimination with another eliminator is there as
\* before, no elimination was added, and the outcomes and the participants
\* of the draft are as before.
C24_ResetRemovesExactlyEliminationsOfCurrent ==
    [][ TookButton("customgame", "RECORD_ELIMINATIONS", "reset_eliminations") =>
          LET X == ud.current_player_id
              before == ud.current_game
              after  == ud'.current_game
          IN /\ Has(ud', "current_game")
             /\ \A p \in DOMAIN after.eliminations : after.eliminations[p] # X
             /\ \A p \in DOMAIN before.eliminations :
                   before.eliminations[p] # X =>
                      /\ p \in DOMAIN after.eliminations
                      /\ after.eliminations[p] = before.eliminations[p]
             /\ DOMAIN after.eliminations \subseteq DOMAIN before.eliminations
             /\ after.outcomes = before.outcomes
             /\ after.players = before.players
      ]_vars

\* a reset has been taken that left the draft with an elimination of another
\* eliminator and with none of the current player
C24_Witness ==
    /\ last.op = "button"
    /\ last.session[1] = "customgame"
    /\ last.status = "RECORD_ELIMINATIONS"
    /\ last.button = ResetEliminations
    /\ Has(ud, "current_game")
    /\ Has(ud, "current_player_id")
    /\ DOMAIN ud.current_game.eliminations # {}
    /\ DOMAIN ud.current_game.outcomes # {}
    /\ \A p \in DOMAIN ud.current_game.eliminations :
          ud.current_game.eliminations[p] # ud.current_player_id

\* the conversation that took the last press took it for a button of its
\* own picker message
OwnButtonTaken == last.op = "button" /\ last.message = last.session

\* C25: a press of a button that the picker of a conversation offers, taken
\* by that conversation, ends with the handler returning a state (the next
\* one, or the same one with a new prompt), never in an error
C25_OfferedOptionIsHandled == OwnButtonTaken => last.ok

\* C26: add_player on a draft that is finalized is refused and leaves the
\* participants of the game as they were
C26_AddPlayerToCommittedGameIsRefused ==
    (last.op = "add_player" /\ last.game.finalized) =>
        /\ ~last.ok
        /\ last.after.players = last.game.players

\* conversation h took done_eliminations in RECORD_ELIMINATIONS at the end
\* of an unbroken chain of its own button presses
Advanced(h) ==
    /\ last.op = "button"
    /\ last.session[1] = h
    /\ last.status = "RECORD_ELIMINATIONS"
    /\ last.button = DoneEliminations
    /\ last.chain
    /\ Has(ud, "current_game")

\* the early-finish condition of the winner-first flow
EarlyFinish ==
    Len(ud.eliminated_players) + Cardinality(Winners(ud.current_game))
        = Len(ud.current_game.players)

\* C27: when the winner-first conversation enters CONFIRM_GAME on an advance
\* at which the early-finish condition does not hold, the elimination picker
\* has been shown for every participant of the draft since the winner was
\* declared.
C27_EveryParticipantBecomesEliminator ==
    ( /\ Advanced("game")
      /\ conv[last.session] = "CONFIRM_GAME"
      /\ ~EarlyFinish ) =>
        Range(ud.current_game.players) \subseteq last.current

\* the participants of the draft that have no outcome
WithoutOutcome(game) == {t \in Range(game.players) : t \notin DOMAIN game.outcomes}

\* C28: while the per-player-outcome conversation runs on the draft that its
\* start command made, the elimination picker is shown and eliminations are
\* in the draft only when every participant has an outcome, and the
\* participants with an outcome are the head of the list of added players up
\* to the current player.
C28_EliminationsFollowAllOutcomes ==
    \A chat \in RecordingChats :
       LET k == <<"customgame", chat>> IN
       ( /\ owner = k
         /\ conv[k] \in {"RECORD_OUTCOMES", "RECORD_ELIMINATIONS"}
         /\ last.op = "button" /\ last.session = k /\ last.chain
         /\ Has(ud, "current_game") ) =>
           /\ ( \/ conv[k] = "RECORD_ELIMINATIONS"
                \/ DOMAIN ud.current_game.eliminations # {} ) =>
                    WithoutOutcome(ud.current_game) = {}
           /\ \A i \in DOMAIN ud.added_players :
                 ud.added_players[i] \in DOMAIN ud.current_game.outcomes =>
                     i <= IndexOf(ud.added_players, ud.current_player_id)

\* no identity is twice in the sequence
NoDuplicates(players) ==
    \A i \in DOMAIN players : \A j \in DOMAIN players : players[i] = players[j] => i = j

\* C29: while a conversation collects players, no identity is twice in the
\* list of added players
C29_ParticipantsAreAddedOnce ==
    ( /\ \E chat \in RecordingChats : \E h \in ConversationNames :
            conv[<<h, chat>>] = "ADD_PLAYERS"
      /\ Has(ud, "added_players") ) =>
        NoDuplicates(ud.added_players)

\* C30: along an unbroken chain of button presses of one conversation, once
\* done_eliminations has been pressed as many times as there are entries in
\* the list of added players, the conversation is in CONFIRM_GAME
C30_AdvancesReachConfirmation ==
    \A h \in ConversationNames :
       ( /\ Advanced(h)
         /\ Has(ud, "added_players")
         /\ last.advances >= Len(ud.added_players) ) =>
           conv[last.session] = "CONFIRM_GAME"

\* a 'confirm' that was answered with "Game has been finalized and saved"
ConfirmAcknowledged ==
    /\ last.op = "add_game"
    /\ last.ok
    /\ last.text \in ConfirmSpellings

\* C31: when a 'confirm' is acknowledged, also one that follows a failed
\* commit of the same draft, the store holds the game row of the draft, a
\* result row for every outcome of the draft and an elimination row for
\* every entry of its elimination map.
C31_AcknowledgedConfirmIsStored ==
    ConfirmAcknowledged =>
        LET gid == last.after.game_id
            g   == last.game
        IN /\ \E row \in db.games : row.game_id = gid /\ row.pod_id = g.pod_id
           /\ \A t \in DOMAIN g.outcomes :
                 \E r \in db.results :
                    /\ r.game_id = gid
                    /\ r.outcome = g.outcomes[t]
                    /\ PlayerById(db, r.player_id).telegram_id = t
           /\ Cardinality({e \in db.elims : e.game_id = gid})
                 = Cardinality(DOMAIN g.eliminations)

\* the last update was a press that the winner-first conversation took, and
\* every update since its start was a press of a button its prompt offered
OfferedOnlyInGame ==
    /\ last.op = "button"
    /\ last.session[1] = "game"
    /\ last.offered
    /\ Has(ud, "current_game")

OneWinnerOthersLose(game) ==
    /\ Cardinality({t \in Range(game.players) :
                       t \in DOMAIN game.outcomes /\ game.outcomes[t] = "win"}) = 1
    /\ \A t \in Range(game.players) :
          t \in DOMAIN game.outcomes /\ game.outcomes[t] \in {"win", "lose"}

\* C33: in the winner-first conversation, from the selection of the winner
\* on, the draft that its start command made has exactly one participant
\* with outcome win and every other participant with outcome lose, and so
\* has every game committed through this conversation.
C33_ExactlyOneWinnerOthersLose ==
    /\ \A chat \in RecordingChats :
          LET k == <<"game", chat>> IN
          ( /\ owner = k
            /\ conv[k] \in {"RECORD_ELIMINATIONS", "CONFIRM_GAME"}
            /\ Has(ud, "current_game") ) =>
              OneWinnerOthersLose(ud.current_game)
    /\ (last.op = "add_game" /\ last.ok /\ last.session[1] = "game") =>
          OneWinnerOthersLose(last.game)

\* the winner-first conversation took done_eliminations in
\* RECORD_ELIMINATIONS in this step, over a draft with its lists
AdvanceInGame ==
    /\ last'.op = "button"
    /\ last'.session[1] = "game"
    /\ last'.status = "RECORD_ELIMINATIONS"
    /\ last'.button = DoneEliminations
    /\ UserDataKeys \subseteq ud.keys
    /\ ud.current_player_id \in Range(ud.added_players)

\* C34: an advance of the winner-first conversation at which the eliminated
\* players and the winners together are as many as the participants moves
\* to CONFIRM_GAME, whoever the current eliminator is; any other advance
\* does not move to CONFIRM_GAME while an added player after the current
\* eliminator remains.
C34_AdvanceFinishesEarlyOrIterates ==
    [][ AdvanceInGame =>
          LET k    == last'.session
              here == IndexOf(ud.added_players, ud.current_player_id)
          IN /\ EarlyFinish => conv'[k] = "CONFIRM_GAME"
             /\ (~EarlyFinish /\ here < Len(ud.added_players)) =>
                   conv'[k] # "CONFIRM_GAME"
      ]_vars

\* a conversation has just ended, by an acknowledged 'confirm' or by a
\* cancel (the command, or the text sent at the confirmation prompt)
SessionEnded ==
    \/ ConfirmAcknowledged
    \/ last.op = "cancel"

\* C35: when a conversation has ended by an acknowledged 'confirm' or by a
\* cancel, user_data holds none of the keys current_game, added_players,
\* eliminated_players and current_player_id.
C35_EndedSessionLeavesNoDraft ==
    SessionEnded => ud.keys \cap UserDataKeys = {}

\* the draft and the eliminated_players list are both in user_data
DraftWithEliminatedList == Has(ud, "current_game") /\ Has(ud, "eliminated_players")

\* C36: whenever user_data holds a draft and the eliminated_players list,
\* the list holds exactly the keys of the draft's eliminations map, each
\* once.
C36_EliminatedListMatchesMap ==
    DraftWithEliminatedList =>
        /\ Range(ud.eliminated_players) = DOMAIN ud.current_game.eliminations
        /\ NoDuplicates(ud.eliminated_players)

\* the /customgame conversation of the chat takes the press of button b of
\* picker message m while it collects players for a draft
TakenWhileCollecting(chat, m, b) ==
    /\ PressButton(chat, m, b)
    /\ CallbackTarget(chat) = <<"customgame", chat>>
    /\ conv[<<"customgame", chat>>] = "ADD_PLAYERS"
    /\ Has(ud, "current_game")

\* C37: while /customgame collects players, a press of done_adding_players
\* with fewer than 2 added players leaves the conversation in ADD_PLAYERS
\* and the participants of the draft as they were; a press changes the
\* participants of the draft only if it is a done_adding_players that
\* moves the conversation on.
C37_ParticipantsCopiedOnlyOnAdvance ==
    [][ \A chat \in RecordingChats : \A m \in Sessions : \A b \in kbd[m] :
          TakenWhileCollecting(chat, m, b) =>
            LET k == <<"customgame", chat>> IN
            /\ (b = DoneAddingPlayers /\ Len(ud.added_players) < 2) =>
                  /\ conv'[k] = "ADD_PLAYERS"
                  /\ ud'.current_game.players = ud.current_game.players
            /\ ud'.current_game.players # ud.current_game.players =>
                  /\ b = DoneAddingPlayers
                  /\ conv'[k] = "RECORD_OUTCOMES"
      ]_vars

\* create_player was called for a pair that had a row, or for a pod that
\* did not exist
JoinOfExistingOrPodless ==
    /\ last.op = "create_player"
    /\ \/ HasPlayer(last.pre, last.session[2], last.user)
       \/ last.session[2] \notin last.pre.pods

\* C38: the directory holds at most one PodPlayer row per pod and user, and
\* a create_player for a pair that has a row, or for a pod that does not
\* exist, fails and leaves the directory as it was.
C38_OnePodPlayerPerPodAndUser ==
    /\ \A p \in db.players : \A q \in db.players :
          (p.pod_id = q.pod_id /\ p.telegram_id = q.telegram_id) => p = q
    /\ \A p \in db.players : p.pod_id \in db.pods
    /\ JoinOfExistingOrPodless => (~last.ok /\ db = last.pre)

\* a user who joined a second pod is refused a second row in it
C38_Witness ==
    /\ last.op = "create_player"
    /\ ~last.ok
    /\ last.fail = "none"
    /\ HasPlayer(last.pre, last.session[2], last.user)
    /\ \E p \in db.players : \E q \in db.players :
          p.telegram_id = last.user /\ q.telegram_id = last.user /\ p.pod_id # q.pod_id
    /\ db.players \notin Directories

\* a call of Game.record_outcome raised ValueError
RecordOutcomeRaised == last.op = "record_outcome" /\ ~last.ok

\* C39: when a call of Game.record_outcome raises, the outcomes and the
\* eliminations of the draft are as they were before the call.
C39_RecordOutcomeIsAllOrNothing ==
    RecordOutcomeRaised =>
        /\ last.after.outcomes = last.game.outcomes
        /\ last.after.eliminations = last.game.eliminations
        /\ ud.current_game.outcomes = last.game.outcomes
        /\ ud.current_game.eliminations = last.game.eliminations

====
